---- MODULE Spec2Model ----
(***************************************************************************)
(* State-machine model of the Clove admin console front end:               *)
(*   - BatchCookieModal  (front/src/components/BatchCookieModal.tsx)       *)
(*   - OAuthModal        (components/OAuthModal.tsx)                       *)
(*   - the cookie normalisation shared by the batch and account modals     *)
(*   - AccountModal      (front/src/components/AccountModal.tsx)           *)
(*   - the Accounts page's close handlers and list reload (pages/Accounts) *)
(*   - the Settings page (front/src/pages/Settings.tsx)                    *)
(*                                                                         *)
(* Strings are sequences of one-character strings, so trim(), split() and  *)
(* startsWith() are computed character by character as the JS engine does. *)
(* The Korean user-facing messages of the source are written in ASCII.     *)
(*                                                                         *)
(* JavaScript runs a handler to completion up to its next await.  The      *)
(* program counters (bpc, opc, apc) name the statement a handler is at; user    *)
(* events are enabled only where a handler is suspended (or none runs).    *)
(***************************************************************************)
EXTENDS Integers, Sequences, FiniteSets, TLC

VARIABLES
    \* ---- BatchCookieModal: React state
    cookies,            \* textarea content
    isProcessing,
    results,            \* CookieResult[]
    showResults,
    \* ---- BatchCookieModal: handleSubmit's activation
    bpc,                \* "idle" | "loop" | "validate" | "awaitCreate" | "delay" | "done"
    cookieLines,        \* local const of handleSubmit
    bi,                 \* loop index i (0-based as in the source)
    createPending,      \* accountsApi.create requests in flight: set of [row, value]
    \* ---- BatchCookieModal: observations of its environment
    createLog,          \* every accountsApi.create call and its outcome, in call order
    delayedAfter,       \* rows (0-based) after which the 300 ms timer has fired
    batchOnCloseCalls,  \* number of calls of props.onClose
    closeRefused,       \* handleClose has returned without calling onClose
    batchModalOpen      \* Accounts page: the modal is mounted

batchVars == <<cookies, isProcessing, results, showResults, bpc, cookieLines, bi,
               createPending, createLog, delayedAfter, batchOnCloseCalls, closeRefused,
               batchModalOpen>>

VARIABLES
    \* ---- OAuthModal: React state
    organizationUuid,
    accountType,        \* "Pro" | "Max"
    authCode,
    loading,
    error,
    uuidError,
    step,               \* "input" | "code"
    pkceVerifier,
    \* ---- OAuthModal: the handler that is suspended at an await, and what it captured
    opc,                \* "idle" | "genAwait" | "exchAwait"
    genOrg,             \* organizationUuid as captured by the running handleGenerateUrl
    exchPending,        \* exchangeData of the request in flight, or NONE
    \* ---- OAuthModal: observations of its environment
    openedWindows,      \* window.open calls: the query parameters of each URL
    exchangeLog,        \* accountsApi.exchangeOAuthCode calls, in call order
    oauthOnCloseCalls,  \* number of calls of props.onClose
    oauthClosedBy,      \* who called props.onClose last: NONE | "cancel" | "exchange"
    oauthOutcome,       \* how the awaited call of the last handler run ended
    failedVerifiers,    \* the pkce_verifier of every exchange request that was rejected
    oauthModalOpen      \* Accounts page: the modal is mounted

oauthVars == <<organizationUuid, accountType, authCode, loading, error, uuidError, step,
               pkceVerifier, opc, genOrg, exchPending, openedWindows, exchangeLog,
               oauthOnCloseCalls, oauthClosedBy, oauthOutcome,
               failedVerifiers, oauthModalOpen>>

VARIABLES
    \* ---- validateAndProcessCookie applied to one input, in both modals
    cookieIn,           \* the argument
    applied,            \* the two functions have been called
    batchOut,           \* BatchCookieModal's result
    accountOut          \* AccountModal's result

cookieVars == <<cookieIn, applied, batchOut, accountOut>>

VARIABLES
    \* ---- AccountModal: props and React state
    editingAccount,     \* props.account (Accounts page state editingAccount)
    formCookie,         \* formData.cookie_value
    formOrg,            \* formData.organization_uuid
    accAccountType,     \* "none" | "Free" | "Pro" | "Max"
    accLoading,
    showCookieAlert,
    accUuidError,
    \* ---- AccountModal: handleSubmitAccount suspended at its await
    apc,                \* "idle" | "await"
    accPending,         \* the create/update request in flight, or NoRequest
    \* ---- AccountModal: observations of its environment
    accountOnCloseCalls,    \* number of calls of props.onClose
    accUnhandled,       \* a rejection has left its handler uncaught
    accountModalOpen    \* Accounts page: modalOpen, the modal is mounted

accountVars == <<editingAccount, formCookie, formOrg, accAccountType, accLoading,
                 showCookieAlert, accUuidError, apc, accPending, accountOnCloseCalls,
                 accUnhandled, accountModalOpen>>

VARIABLES
    \* ---- BatchCookieModal: copyFailedCookies
    clipboard,          \* what navigator.clipboard.writeText last stored, if it did
    copyToast           \* "none" | "success" | "error": the toast of the last copy

clipVars == <<clipboard, copyToast>>

VARIABLES
    \* ---- Login page: React state
    adminKey,           \* the key input
    loginError,
    loginLoading,
    \* ---- Login page: browser and handler
    storedAdminKey,     \* localStorage item 'adminKey'
    lpc,                \* "idle" | "await": handleSubmit before or at its await
    loginCheck,         \* the statisticsApi.get() call in flight
    navigations,        \* paths passed to navigate while the page is mounted
    loginOutcome,       \* how the last validation call completed
    storedBefore,       \* the stored item when the last attempt started
    loginMounted

loginVars == <<adminKey, loginError, loginLoading, storedAdminKey, lpc, loginCheck,
               navigations, loginOutcome, storedBefore, loginMounted>>

VARIABLES
    \* ---- generatePKCE
    randomBytes,        \* the Uint8Array(32) filled by crypto.getRandomValues
    pkVerifier,
    digestCall,         \* arguments of crypto.subtle.digest
    digestBytes,        \* the bytes of the ArrayBuffer it resolved with
    pkChallenge,
    gpc                 \* "start" | "digest" | "hashed" | "returned"

pkceVars == <<randomBytes, pkVerifier, digestCall, digestBytes, pkChallenge, gpc>>

VARIABLES
    \* ---- Accounts page
    listCalls           \* number of accountsApi.list calls issued by loadAccounts

pageVars == <<listCalls>>

VARIABLES
    \* ---- Settings page: React state
    settings,           \* SettingsRead | null
    originalSettings,   \* SettingsRead | null: the baseline of the diffs
    settingsLoading,
    saveStatus,         \* "idle" | "saving" | "saved" | "error"
    newApiKey,
    newAdminKey,
    \* ---- Settings page: the browser and the handlers suspended at an await
    focus,              \* the text field that has the focus, or NONE
    loadPending,        \* loadSettings awaits settingsApi.get()
    savesInFlight,      \* saveChanges activations awaiting settingsApi.update, each with
                        \* the originalSettings its closure captured
    resetTimers,        \* pending setTimeout(() => setSaveStatus('idle')) callbacks
    \* ---- Settings page: observations of its environment
    savesSent,          \* number of settingsApi.update calls
    lastUpdate,         \* the last settingsApi.update call and the edit that caused it
    serverSettings      \* the loaded settings with every resolved update applied

settingsVars == <<settings, originalSettings, settingsLoading, saveStatus, newApiKey,
                  newAdminKey,
                  focus, loadPending, savesInFlight, resetTimers, savesSent, lastUpdate,
                  serverSettings>>

vars == <<batchVars, clipVars, oauthVars, cookieVars, accountVars, pageVars, settingsVars,
          loginVars, pkceVars>>

\* What each component's actions leave alone
batchRest == <<clipVars, oauthVars, cookieVars, accountVars, settingsVars, loginVars, pkceVars>>
oauthRest == <<batchVars, clipVars, cookieVars, accountVars, settingsVars, loginVars, pkceVars>>
cookieRest == <<batchVars, clipVars, oauthVars, accountVars, settingsVars, loginVars, pkceVars>>

accountRest == <<batchVars, clipVars, oauthVars, cookieVars, settingsVars, loginVars, pkceVars>>

settingsRest == <<batchVars, clipVars, oauthVars, cookieVars, accountVars, pageVars,
                  loginVars, pkceVars>>

loginRest == <<batchVars, clipVars, oauthVars, cookieVars, accountVars, pageVars,
               settingsVars, pkceVars>>

pkceRest == <<batchVars, clipVars, oauthVars, cookieVars, accountVars, pageVars,
              settingsVars, loginVars>>

-----------------------------------------------------------------------------
\* Accounts page: loadAccounts up to its await accountsApi.list(), as called by
\* handleModalClose, handleOAuthModalClose and handleBatchModalClose after they
\* cleared the modal's open flag
LoadAccounts_Never ==
    UNCHANGED listCalls

LoadAccounts ==
    listCalls' = listCalls + 1

-----------------------------------------------------------------------------
\* Bounds of the model

MaxLines == 3
MaxExchanges == 2
MaxPieces == 3

-----------------------------------------------------------------------------
\* String primitives (ECMAScript String.prototype)

NONE == "undefined"

WhiteSpace == {" ", "\t"}
LineTerminator == {"\n"}

RECURSIVE TrimStart(_)
TrimStart(s) ==
    IF s # <<>> /\ Head(s) \in (WhiteSpace \cup LineTerminator) THEN TrimStart(Tail(s)) ELSE s

RECURSIVE TrimEnd(_)
TrimEnd(s) ==
    IF s # <<>> /\ s[Len(s)] \in (WhiteSpace \cup LineTerminator)
    THEN TrimEnd(SubSeq(s, 1, Len(s) - 1))
    ELSE s

Trim(s) == TrimEnd(TrimStart(s))

StartsWith(s, p) == Len(s) >= Len(p) /\ SubSeq(s, 1, Len(p)) = p

\* s.split('\n'): the pieces between line feeds, empty pieces included; cur is the
\* part of the current piece already read
RECURSIVE SplitLines(_, _)
SplitLines(s, cur) ==
    IF \A k \in 1..Len(s) : s[k] # "\n" THEN <<cur \o s>>
    ELSE LET feed == CHOOSE k \in 1..Len(s) :
                        s[k] = "\n" /\ \A m \in 1..(k - 1) : s[m] # "\n"
         IN  <<cur \o SubSeq(s, 1, feed - 1)>> \o SplitLines(SubSeq(s, feed + 1, Len(s)), <<>>)

Split(s) == SplitLines(s, <<>>)

RECURSIVE JoinLines(_)
JoinLines(ls) ==
    IF ls = <<>> THEN <<>>
    ELSE IF Len(ls) = 1 THEN ls[1]
    ELSE ls[1] \o <<"\n">> \o JoinLines(Tail(ls))

RECURSIVE FilterNonEmpty(_)
FilterNonEmpty(ls) ==
    IF ls = <<>> THEN <<>>
    ELSE IF Len(Head(ls)) > 0 THEN <<Head(ls)>> \o FilterNonEmpty(Tail(ls))
    ELSE FilterNonEmpty(Tail(ls))

MapTrim_Identity(ls) == ls

MapTrim(ls) == [k \in 1..Len(ls) |-> Trim(ls[k])]

-----------------------------------------------------------------------------
\* Literals of the source

SID01 == <<"s","k","-","a","n","t","-","s","i","d","0","1","-">>
SESSIONKEY == <<"s","e","s","s","i","o","n","K","e","y","=">>

InvalidFormatMsg == "invalid cookie format"
AddFailedMsg == "add failed"

-----------------------------------------------------------------------------
\* BatchCookieModal.validateAndProcessCookie

BatchValidate_NoTrim(cookieValue) ==
    LET processedValue == IF StartsWith(cookieValue, SID01)
                          THEN SESSIONKEY \o cookieValue ELSE cookieValue
    IN  [isValid |-> StartsWith(processedValue, SESSIONKEY \o SID01),
         processedValue |-> processedValue]

BatchValidateAndProcessCookie(cookieValue) ==
    LET trimmed == Trim(cookieValue)
        processedValue == IF StartsWith(trimmed, SID01)
                          THEN SESSIONKEY \o trimmed ELSE trimmed
    IN  [isValid |-> StartsWith(processedValue, SESSIONKEY \o SID01),
         processedValue |-> processedValue]

-----------------------------------------------------------------------------
\* Inputs of the batch modal

LineChoices ==
    { <<" ">>,
      SID01 \o <<"a">>,
      <<" ">> \o SESSIONKEY \o SID01 \o <<"b">> \o <<" ">>,
      <<"g","a","r","b","a","g","e">> }

BatchTexts ==
    UNION { { JoinLines(ls) : ls \in [1..n -> LineChoices] } : n \in 1..MaxLines }

\* What accountsApi.create can answer
Organizations == {"org-1"}
\* error.response?.data?.detail?.message of a rejection: absent, empty, or a text
RejectDetails == {NONE, "", "cookie already exists"}

-----------------------------------------------------------------------------
\* BatchCookieModal: state after construction

\* the page's batchModalOpen flag being open, the state of a modal just constructed
\* the clipboard before the modal wrote to it
NoClip == [written |-> FALSE, text |-> <<>>]

BatchModalAs(open) ==
    /\ cookies = <<>>
    /\ isProcessing = FALSE
    /\ results = <<>>
    /\ showResults = FALSE
    /\ bpc = "idle"
    /\ cookieLines = <<>>
    /\ bi = 0
    /\ createPending = {}
    /\ createLog = <<>>
    /\ delayedAfter = {}
    /\ batchOnCloseCalls = 0
    /\ closeRefused = FALSE
    /\ batchModalOpen = open
    /\ clipboard = NoClip
    /\ copyToast = "none"

BatchInit == BatchModalAs(TRUE)

\* No handler is in the middle of a synchronous run
BatchSuspended == bpc \in {"idle", "awaitCreate", "delay", "done"}

\* updated[i] = { ...updated[i], ...fields } on a copy of prev (i is 0-based)
UpdateRow(prev, i, fields) ==
    [prev EXCEPT ![i + 1] =
        [f \in (DOMAIN prev[i + 1]) \cup (DOMAIN fields) |->
            IF f \in DOMAIN fields THEN fields[f] ELSE prev[i + 1][f]]]

\* textarea onChange
SetCookies(text) ==
    /\ batchModalOpen /\ BatchSuspended
    /\ ~showResults
    /\ cookies' = text
    /\ UNCHANGED <<isProcessing, results, showResults, bpc, cookieLines, bi,
                   createPending, createLog, delayedAfter, batchOnCloseCalls, closeRefused, batchModalOpen>>
    /\ UNCHANGED pageVars
    /\ UNCHANGED batchRest

\* the submit button (rendered while the results are not shown) and its disabled
\* condition
BatchSubmitEnabled ==
    /\ ~showResults
    /\ ~(isProcessing \/ Trim(cookies) = <<>>)

\* handleSubmit up to the loop; the form is submitted through its enabled button
HandleSubmit_NoEmptyCheck ==
    /\ batchModalOpen /\ bpc = "idle"
    /\ ~showResults
    /\ LET lines == FilterNonEmpty(MapTrim(Split(cookies)))
       IN  /\ cookieLines' = lines
           /\ isProcessing' = TRUE
           /\ showResults' = TRUE
           /\ results' = [k \in 1..Len(lines) |-> [cookie |-> lines[k], status |-> "pending"]]
           /\ bi' = 0
           /\ bpc' = "loop"
           /\ UNCHANGED <<cookies, createPending, createLog, delayedAfter,
                          batchOnCloseCalls, closeRefused, batchModalOpen>>
    /\ UNCHANGED pageVars
    /\ UNCHANGED batchRest

HandleSubmit ==
    /\ batchModalOpen /\ bpc = "idle"
    /\ BatchSubmitEnabled
    /\ LET lines == FilterNonEmpty(MapTrim(Split(cookies)))
       IN  IF Len(lines) = 0
           THEN UNCHANGED batchVars
           ELSE /\ cookieLines' = lines
                /\ isProcessing' = TRUE
                /\ showResults' = TRUE
                /\ results' = [k \in 1..Len(lines) |-> [cookie |-> lines[k], status |-> "pending"]]
                /\ bi' = 0
                /\ bpc' = "loop"
                /\ UNCHANGED <<cookies, createPending, createLog, delayedAfter,
                               batchOnCloseCalls, closeRefused, batchModalOpen>>
    /\ UNCHANGED pageVars
    /\ UNCHANGED batchRest

\* for (...; i < cookieLines.length; ...) { setResults(processing) ... }  and, past the
\* loop, setIsProcessing(false)
LoopHead_KeepsPending ==
    /\ bpc = "loop"
    /\ IF bi < Len(cookieLines)
       THEN /\ bpc' = "validate"
            /\ UNCHANGED <<isProcessing, results>>
       ELSE /\ isProcessing' = FALSE
            /\ bpc' = "done"
            /\ UNCHANGED results
    /\ UNCHANGED <<cookies, showResults, cookieLines, bi, createPending, createLog,
                   delayedAfter, batchOnCloseCalls, closeRefused, batchModalOpen>>
    /\ UNCHANGED pageVars
    /\ UNCHANGED batchRest

LoopHead ==
    /\ bpc = "loop"
    /\ IF bi < Len(cookieLines)
       THEN /\ results' = UpdateRow(results, bi, [status |-> "processing"])
            /\ bpc' = "validate"
            /\ UNCHANGED isProcessing
       ELSE /\ isProcessing' = FALSE
            /\ bpc' = "done"
            /\ UNCHANGED results
    /\ UNCHANGED <<cookies, showResults, cookieLines, bi, createPending, createLog,
                   delayedAfter, batchOnCloseCalls, closeRefused, batchModalOpen>>
    /\ UNCHANGED pageVars
    /\ UNCHANGED batchRest

\* try { validate; if (!isValid) { setResults(error); continue }; create(...) -> await
Validate_ForgetsError ==
    /\ bpc = "validate"
    /\ LET v == BatchValidateAndProcessCookie(cookieLines[bi + 1])
       IN  IF ~v.isValid
           THEN /\ bi' = bi + 1
                /\ bpc' = "loop"
                /\ UNCHANGED <<results, createPending, createLog>>
           ELSE /\ createPending' = createPending \cup {[row |-> bi, value |-> v.processedValue]}
                /\ createLog' = Append(createLog,
                                       [row |-> bi, value |-> v.processedValue, outcome |-> [state |-> "pending"]])
                /\ bpc' = "awaitCreate"
                /\ UNCHANGED <<results, bi>>
    /\ UNCHANGED <<cookies, isProcessing, showResults, cookieLines, delayedAfter,
                   batchOnCloseCalls, closeRefused, batchModalOpen>>
    /\ UNCHANGED pageVars
    /\ UNCHANGED batchRest

Validate ==
    /\ bpc = "validate"
    /\ LET v == BatchValidateAndProcessCookie(cookieLines[bi + 1])
       IN  IF ~v.isValid
           THEN /\ results' = UpdateRow(results, bi,
                                        [status |-> "error", error |-> InvalidFormatMsg])
                /\ bi' = bi + 1
                /\ bpc' = "loop"
                /\ UNCHANGED <<createPending, createLog>>
           ELSE /\ createPending' = createPending \cup {[row |-> bi, value |-> v.processedValue]}
                /\ createLog' = Append(createLog,
                                       [row |-> bi, value |-> v.processedValue, outcome |-> [state |-> "pending"]])
                /\ bpc' = "awaitCreate"
                /\ UNCHANGED <<results, bi>>
    /\ UNCHANGED <<cookies, isProcessing, showResults, cookieLines, delayedAfter,
                   batchOnCloseCalls, closeRefused, batchModalOpen>>
    /\ UNCHANGED pageVars
    /\ UNCHANGED batchRest

\* the outcome of the latest create call, written to the observation log
LogOutcome(log, o) == [log EXCEPT ![Len(log)].outcome = o]

\* await accountsApi.create resolves: setResults(success, organization_uuid), then the
\* handler is at the delay
CreateResolves(org) ==
    /\ bpc = "awaitCreate"
    /\ \E req \in createPending :
          /\ req.row = bi
          /\ createPending' = createPending \ {req}
    /\ results' = UpdateRow(results, bi, [status |-> "success", organizationUuid |-> org])
    /\ createLog' = LogOutcome(createLog, [state |-> "resolved", organization_uuid |-> org])
    /\ bpc' = "delay"
    /\ UNCHANGED <<cookies, isProcessing, showResults, cookieLines, bi, delayedAfter,
                   batchOnCloseCalls, closeRefused, batchModalOpen>>
    /\ UNCHANGED pageVars
    /\ UNCHANGED batchRest

\* error.response?.data?.detail?.message || generic
ErrorMessage_DropsDetail(detail) == AddFailedMsg

ErrorMessage(detail) == IF detail = NONE \/ detail = "" THEN AddFailedMsg ELSE detail

\* await accountsApi.create rejects: catch { setResults(error, message) }, then the delay
CreateRejects_SkipsDelay(detail) ==
    /\ bpc = "awaitCreate"
    /\ \E req \in createPending :
          /\ req.row = bi
          /\ createPending' = createPending \ {req}
    /\ results' = UpdateRow(results, bi, [status |-> "error", error |-> ErrorMessage(detail)])
    /\ createLog' = LogOutcome(createLog, [state |-> "rejected", detail |-> detail])
    /\ bi' = bi + 1
    /\ bpc' = "loop"
    /\ UNCHANGED <<cookies, isProcessing, showResults, cookieLines, delayedAfter,
                   batchOnCloseCalls, closeRefused, batchModalOpen>>
    /\ UNCHANGED pageVars
    /\ UNCHANGED batchRest

CreateRejects_Rethrows(detail) ==
    /\ bpc = "awaitCreate"
    /\ \E req \in createPending :
          /\ req.row = bi
          /\ createPending' = createPending \ {req}
    /\ createLog' = LogOutcome(createLog, [state |-> "rejected", detail |-> detail])
    /\ bpc' = "done"
    /\ UNCHANGED <<cookies, isProcessing, results, showResults, cookieLines, bi, delayedAfter,
                   batchOnCloseCalls, closeRefused, batchModalOpen>>
    /\ UNCHANGED pageVars
    /\ UNCHANGED batchRest

CreateRejects(detail) ==
    /\ bpc = "awaitCreate"
    /\ \E req \in createPending :
          /\ req.row = bi
          /\ createPending' = createPending \ {req}
    /\ results' = UpdateRow(results, bi, [status |-> "error", error |-> ErrorMessage(detail)])
    /\ createLog' = LogOutcome(createLog, [state |-> "rejected", detail |-> detail])
    /\ bpc' = "delay"
    /\ UNCHANGED <<cookies, isProcessing, showResults, cookieLines, bi, delayedAfter,
                   batchOnCloseCalls, closeRefused, batchModalOpen>>
    /\ UNCHANGED pageVars
    /\ UNCHANGED batchRest

\* await new Promise(resolve => setTimeout(resolve, 300)); i++
DelayElapses_TimesOut ==
    /\ bpc \in {"delay", "awaitCreate"}
    /\ delayedAfter' = delayedAfter \cup {bi}
    /\ bi' = bi + 1
    /\ bpc' = "loop"
    /\ UNCHANGED <<cookies, isProcessing, results, showResults, cookieLines, createPending,
                   createLog, batchOnCloseCalls, closeRefused, batchModalOpen>>
    /\ UNCHANGED pageVars
    /\ UNCHANGED batchRest

DelayElapses ==
    /\ bpc = "delay"
    /\ delayedAfter' = delayedAfter \cup {bi}
    /\ bi' = bi + 1
    /\ bpc' = "loop"
    /\ UNCHANGED <<cookies, isProcessing, results, showResults, cookieLines, createPending,
                   createLog, batchOnCloseCalls, closeRefused, batchModalOpen>>
    /\ UNCHANGED pageVars
    /\ UNCHANGED batchRest

\* handleClose; onClose is Accounts.handleBatchModalClose, which unmounts the modal
HandleClose_NoGuard ==
    /\ batchModalOpen /\ BatchSuspended
    /\ batchOnCloseCalls' = batchOnCloseCalls + 1
    /\ LoadAccounts
    /\ batchModalOpen' = FALSE
    /\ UNCHANGED <<cookies, isProcessing, results, showResults, bpc, cookieLines, bi,
                   createPending, createLog, delayedAfter, closeRefused>>
    /\ UNCHANGED batchRest

HandleClose_Never ==
    /\ batchModalOpen /\ BatchSuspended
    /\ closeRefused' = TRUE
    /\ UNCHANGED <<cookies, isProcessing, results, showResults, bpc, cookieLines, bi,
                   createPending, createLog, delayedAfter, batchOnCloseCalls, batchModalOpen>>
    /\ UNCHANGED pageVars
    /\ UNCHANGED batchRest

HandleClose ==
    /\ batchModalOpen /\ BatchSuspended
    /\ IF isProcessing
       THEN /\ closeRefused' = TRUE
            /\ UNCHANGED <<batchOnCloseCalls, batchModalOpen, listCalls>>
       ELSE /\ batchOnCloseCalls' = batchOnCloseCalls + 1
            /\ LoadAccounts
            /\ batchModalOpen' = FALSE
            /\ UNCHANGED closeRefused
    /\ UNCHANGED <<cookies, isProcessing, results, showResults, bpc, cookieLines, bi,
                   createPending, createLog, delayedAfter>>
    /\ UNCHANGED batchRest

RECURSIVE FilterError(_)
FilterError(rs) ==
    IF rs = <<>> THEN <<>>
    ELSE IF Head(rs).status = "error" THEN <<Head(rs)>> \o FilterError(Tail(rs))
    ELSE FilterError(Tail(rs))

MapCookie(rs) == [k \in 1..Len(rs) |-> rs[k].cookie]

FailedCookies_AllRows(rs) == JoinLines(MapCookie(rs))

FailedCookies(rs) == JoinLines(MapCookie(FilterError(rs)))

\* getErrorCount
GetErrorCount == Len(FilterError(results))

\* The copy button is rendered under the results once the run is over and a row failed;
\* writeText either stores the text or rejects, and each outcome raises its toast
CopyFailedCookies(written) ==
    /\ batchModalOpen /\ BatchSuspended
    /\ showResults /\ ~isProcessing
    /\ GetErrorCount > 0
    /\ IF written
       THEN /\ clipboard' = [written |-> TRUE, text |-> FailedCookies(results)]
            /\ copyToast' = "success"
       ELSE /\ UNCHANGED clipboard
            /\ copyToast' = "error"
    /\ UNCHANGED batchVars
    /\ UNCHANGED pageVars
    /\ UNCHANGED <<oauthVars, cookieVars, accountVars, settingsVars, loginVars, pkceVars>>

BatchNext ==
    \/ \E text \in BatchTexts : SetCookies(text)
    \/ HandleSubmit
    \/ LoopHead
    \/ Validate
    \/ \E org \in Organizations : CreateResolves(org)
    \/ \E detail \in RejectDetails : CreateRejects(detail)
    \/ DelayElapses
    \/ HandleClose

-----------------------------------------------------------------------------
\* OAuthModal

CLIENT_ID == "9d1c250a-e61b-44d9-88ed-5944d1962f5e"
REDIRECT_URI == "https://console.anthropic.com/oauth/code/callback"
OAUTH_SCOPE == "user:profile user:inference"

EnterUuidMsg == "enter the organization uuid"
UrlFailedMsg == "authorization url generation failed"
EnterCodeMsg == "enter the authorization code"
ExchangeFailedMsg == "authorization failed, try again"
UuidFormatMsg == "enter a valid uuid"

\* Identifiers a user may type
UUID_CANONICAL == <<"0","f","8","f","a","d","5","b","-","d","9","c","b","-","4","6","9","f","-","a","1","6","5","-","7","0","8","6","7","7","2","8","9","5","0","e">>
UUID_UNDASHED == <<"0","f","8","f","a","d","5","b","d","9","c","b","4","6","9","f","a","1","6","5","7","0","8","6","7","7","2","8","9","5","0","e">>
NOT_A_UUID == <<"m","y","-","o","r","g">>

OrgInputs == { <<>>, <<" ">>, UUID_CANONICAL, UUID_UNDASHED, NOT_A_UUID }
CodeInputs == { <<>>, <<" ">>, <<"c","1">> }

\* utils/validators: normalise a UUID-shaped string, and test the canonical shape
FormatUUID(s) == IF s = UUID_UNDASHED THEN UUID_CANONICAL ELSE s
IsValidUUID(s) == s = UUID_CANONICAL

\* generatePKCE: the verifier is drawn at random; the challenge is a function of it
Verifiers == {"verifier-1", "verifier-2"}
Challenge(verifier) == <<"S256", verifier>>

NoOutcome == [op |-> "none", ok |-> TRUE]

\* the page's oauthModalOpen flag being open, the state of a modal just constructed
OAuthModalAs(open) ==
    /\ organizationUuid = <<>>
    /\ accountType = "Pro"
    /\ authCode = <<>>
    /\ loading = FALSE
    /\ error = ""
    /\ uuidError = ""
    /\ step = "input"
    /\ pkceVerifier = ""
    /\ opc = "idle"
    /\ genOrg = NONE
    /\ exchPending = NONE
    /\ openedWindows = <<>>
    /\ exchangeLog = <<>>
    /\ oauthOnCloseCalls = 0
    /\ oauthClosedBy = NONE
    /\ oauthOutcome = NoOutcome
    /\ failedVerifiers = {}
    /\ oauthModalOpen = open

OAuthInit == OAuthModalAs(TRUE)

\* organization input onChange (rendered in step 'input')
SetOrganizationUuid(value) ==
    /\ oauthModalOpen /\ step = "input"
    /\ organizationUuid' = value
    /\ uuidError' = IF FormatUUID(value) # <<>> /\ ~IsValidUUID(FormatUUID(value))
                    THEN UuidFormatMsg ELSE ""
    /\ UNCHANGED <<accountType, authCode, loading, error, step, pkceVerifier, opc, genOrg,
                   exchPending, openedWindows, exchangeLog, oauthOnCloseCalls, oauthClosedBy,
                   oauthModalOpen>>
    /\ UNCHANGED <<oauthOutcome, failedVerifiers>>
    /\ UNCHANGED pageVars
    /\ UNCHANGED oauthRest

\* account type select (rendered in step 'input')
SetAccountType(value) ==
    /\ oauthModalOpen /\ step = "input"
    /\ accountType' = value
    /\ UNCHANGED <<organizationUuid, authCode, loading, error, uuidError, step, pkceVerifier,
                   opc, genOrg, exchPending, openedWindows, exchangeLog, oauthOnCloseCalls,
                   oauthClosedBy, oauthModalOpen>>
    /\ UNCHANGED <<oauthOutcome, failedVerifiers>>
    /\ UNCHANGED pageVars
    /\ UNCHANGED oauthRest

\* code input onChange (rendered in step 'code')
SetAuthCode(value) ==
    /\ oauthModalOpen /\ step = "code"
    /\ authCode' = value
    /\ UNCHANGED <<organizationUuid, accountType, loading, error, uuidError, step,
                   pkceVerifier, opc, genOrg, exchPending, openedWindows, exchangeLog,
                   oauthOnCloseCalls, oauthClosedBy, oauthModalOpen>>
    /\ UNCHANGED <<oauthOutcome, failedVerifiers>>
    /\ UNCHANGED pageVars
    /\ UNCHANGED oauthRest

\* the generate button: rendered in step 'input', and its disabled condition
GenerateButtonEnabled_NoUuidCheck ==
    /\ step = "input"
    /\ ~loading

GenerateButtonEnabled ==
    /\ step = "input"
    /\ ~(loading \/ Trim(organizationUuid) = <<>>
                 \/ ~IsValidUUID(FormatUUID(organizationUuid)))

\* handleGenerateUrl up to await generatePKCE()
HandleGenerateUrl ==
    /\ oauthModalOpen /\ GenerateButtonEnabled
    /\ IF Trim(organizationUuid) = <<>>
       THEN /\ error' = EnterUuidMsg
            /\ UNCHANGED <<loading, opc, genOrg>>
       ELSE /\ loading' = TRUE
            /\ error' = ""
            /\ opc' = "genAwait"
            /\ genOrg' = organizationUuid
    /\ UNCHANGED <<organizationUuid, accountType, authCode, uuidError, step, pkceVerifier,
                   exchPending, openedWindows, exchangeLog, oauthOnCloseCalls, oauthClosedBy,
                   oauthModalOpen>>
    /\ oauthOutcome' = NoOutcome
    /\ UNCHANGED failedVerifiers
    /\ UNCHANGED pageVars
    /\ UNCHANGED oauthRest

GenerateResolves_KeepsVerifier(verifier) ==
    /\ opc = "genAwait"
    /\ openedWindows' = Append(openedWindows,
            [response_type |-> "code",
             client_id |-> CLIENT_ID,
             organization_uuid |-> FormatUUID(genOrg),
             redirect_uri |-> REDIRECT_URI,
             scope |-> OAUTH_SCOPE,
             state |-> verifier,
             code_challenge |-> Challenge(verifier),
             code_challenge_method |-> "S256"])
    /\ IF oauthModalOpen
       THEN /\ step' = "code"
            /\ loading' = FALSE
       ELSE UNCHANGED <<step, loading>>
    /\ opc' = "idle"
    /\ genOrg' = NONE
    /\ UNCHANGED <<organizationUuid, accountType, authCode, error, uuidError, exchPending,
                   exchangeLog, oauthOnCloseCalls, oauthClosedBy, oauthModalOpen,
                   pkceVerifier>>
    /\ oauthOutcome' = [op |-> "generate", ok |-> TRUE]
    /\ UNCHANGED failedVerifiers
    /\ UNCHANGED pageVars
    /\ UNCHANGED oauthRest

\* generatePKCE resolved: setPkceVerifier, window.open(authUrl), setStep('code'),
\* finally setLoading(false).  State setters of an unmounted component do nothing.
GenerateResolves(verifier) ==
    /\ opc = "genAwait"
    /\ openedWindows' = Append(openedWindows,
            [response_type |-> "code",
             client_id |-> CLIENT_ID,
             organization_uuid |-> FormatUUID(genOrg),
             redirect_uri |-> REDIRECT_URI,
             scope |-> OAUTH_SCOPE,
             state |-> verifier,
             code_challenge |-> Challenge(verifier),
             code_challenge_method |-> "S256"])
    /\ IF oauthModalOpen
       THEN /\ pkceVerifier' = verifier
            /\ step' = "code"
            /\ loading' = FALSE
       ELSE UNCHANGED <<pkceVerifier, step, loading>>
    /\ opc' = "idle"
    /\ genOrg' = NONE
    /\ UNCHANGED <<organizationUuid, accountType, authCode, error, uuidError, exchPending,
                   exchangeLog, oauthOnCloseCalls, oauthClosedBy, oauthModalOpen>>
    /\ oauthOutcome' = [op |-> "generate", ok |-> TRUE]
    /\ UNCHANGED failedVerifiers
    /\ UNCHANGED pageVars
    /\ UNCHANGED oauthRest

\* generatePKCE threw or rejected: catch { setError }, finally setLoading(false)
GenerateFails_AdvancesStep ==
    /\ opc = "genAwait"
    /\ IF oauthModalOpen
       THEN /\ error' = UrlFailedMsg
            /\ step' = "code"
            /\ loading' = FALSE
       ELSE UNCHANGED <<error, step, loading>>
    /\ opc' = "idle"
    /\ genOrg' = NONE
    /\ UNCHANGED <<organizationUuid, accountType, authCode, uuidError, pkceVerifier,
                   exchPending, openedWindows, exchangeLog, oauthOnCloseCalls, oauthClosedBy,
                   oauthModalOpen>>
    /\ oauthOutcome' = [op |-> "generate", ok |-> FALSE]
    /\ UNCHANGED failedVerifiers
    /\ UNCHANGED pageVars
    /\ UNCHANGED oauthRest

GenerateFails ==
    /\ opc = "genAwait"
    /\ IF oauthModalOpen
       THEN /\ error' = UrlFailedMsg
            /\ loading' = FALSE
       ELSE UNCHANGED <<error, loading>>
    /\ opc' = "idle"
    /\ genOrg' = NONE
    /\ UNCHANGED <<organizationUuid, accountType, authCode, uuidError, step, pkceVerifier,
                   exchPending, openedWindows, exchangeLog, oauthOnCloseCalls, oauthClosedBy,
                   oauthModalOpen>>
    /\ oauthOutcome' = [op |-> "generate", ok |-> FALSE]
    /\ UNCHANGED failedVerifiers
    /\ UNCHANGED pageVars
    /\ UNCHANGED oauthRest

\* the exchange button: rendered in step 'code', and its disabled condition
ExchangeButtonEnabled ==
    /\ step = "code"
    /\ ~(loading \/ Trim(authCode) = <<>>)

Capabilities_ChatOnly(type) ==
    <<"chat">>

Capabilities(type) ==
    IF type = "Max" THEN <<"chat", "claude_max">>
    ELSE IF type = "Pro" THEN <<"chat", "claude_pro">>
    ELSE <<"chat">>

HandleExchangeToken_NoCodeCheck ==
    /\ oauthModalOpen /\ step = "code" /\ ~loading
    /\ Len(exchangeLog) < MaxExchanges
    /\ LET exchangeData == [organization_uuid |-> FormatUUID(organizationUuid),
                            code |-> authCode,
                            pkce_verifier |-> pkceVerifier,
                            capabilities |-> Capabilities(accountType)]
       IN  /\ loading' = TRUE
           /\ error' = ""
           /\ opc' = "exchAwait"
           /\ exchPending' = exchangeData
           /\ exchangeLog' = Append(exchangeLog, exchangeData)
    /\ UNCHANGED <<organizationUuid, accountType, authCode, uuidError, step, pkceVerifier,
                   genOrg, openedWindows, oauthOnCloseCalls, oauthClosedBy, oauthModalOpen>>
    /\ oauthOutcome' = NoOutcome
    /\ UNCHANGED failedVerifiers
    /\ UNCHANGED pageVars
    /\ UNCHANGED oauthRest

\* handleExchangeToken up to await accountsApi.exchangeOAuthCode(exchangeData)
HandleExchangeToken ==
    /\ oauthModalOpen /\ ExchangeButtonEnabled
    /\ Len(exchangeLog) < MaxExchanges
    /\ IF Trim(authCode) = <<>>
       THEN /\ error' = EnterCodeMsg
            /\ UNCHANGED <<loading, opc, exchPending, exchangeLog>>
       ELSE LET exchangeData == [organization_uuid |-> FormatUUID(organizationUuid),
                                 code |-> authCode,
                                 pkce_verifier |-> pkceVerifier,
                                 capabilities |-> Capabilities(accountType)]
            IN  /\ loading' = TRUE
                /\ error' = ""
                /\ opc' = "exchAwait"
                /\ exchPending' = exchangeData
                /\ exchangeLog' = Append(exchangeLog, exchangeData)
    /\ UNCHANGED <<organizationUuid, accountType, authCode, uuidError, step, pkceVerifier,
                   genOrg, openedWindows, oauthOnCloseCalls, oauthClosedBy, oauthModalOpen>>
    /\ oauthOutcome' = NoOutcome
    /\ UNCHANGED failedVerifiers
    /\ UNCHANGED pageVars
    /\ UNCHANGED oauthRest

\* the exchange resolved: onClose() (Accounts.handleOAuthModalClose), finally
\* setLoading(false)
ExchangeResolves ==
    /\ opc = "exchAwait"
    /\ oauthOnCloseCalls' = oauthOnCloseCalls + 1
    /\ LoadAccounts
    /\ oauthClosedBy' = "exchange"
    /\ oauthModalOpen' = FALSE
    /\ loading' = IF oauthModalOpen THEN FALSE ELSE loading
    /\ opc' = "idle"
    /\ exchPending' = NONE
    /\ UNCHANGED <<organizationUuid, accountType, authCode, error, uuidError, step,
                   pkceVerifier, genOrg, openedWindows, exchangeLog>>
    /\ oauthOutcome' = [op |-> "exchange", ok |-> TRUE]
    /\ UNCHANGED failedVerifiers
    /\ UNCHANGED oauthRest

ExchangeRejects_ClosesModal ==
    /\ opc = "exchAwait"
    /\ IF oauthModalOpen
       THEN /\ error' = ExchangeFailedMsg
            /\ loading' = FALSE
       ELSE UNCHANGED <<error, loading>>
    /\ oauthOnCloseCalls' = oauthOnCloseCalls + 1
    /\ LoadAccounts
    /\ oauthClosedBy' = "exchange"
    /\ oauthModalOpen' = FALSE
    /\ opc' = "idle"
    /\ exchPending' = NONE
    /\ UNCHANGED <<organizationUuid, accountType, authCode, uuidError, step, pkceVerifier,
                   genOrg, openedWindows, exchangeLog>>
    /\ oauthOutcome' = [op |-> "exchange", ok |-> FALSE]
    /\ failedVerifiers' = failedVerifiers \cup {exchPending.pkce_verifier}
    /\ UNCHANGED oauthRest

\* the exchange rejected: catch { setError }, finally setLoading(false)
ExchangeRejects ==
    /\ opc = "exchAwait"
    /\ IF oauthModalOpen
       THEN /\ error' = ExchangeFailedMsg
            /\ loading' = FALSE
       ELSE UNCHANGED <<error, loading>>
    /\ opc' = "idle"
    /\ exchPending' = NONE
    /\ UNCHANGED <<organizationUuid, accountType, authCode, uuidError, step, pkceVerifier,
                   genOrg, openedWindows, exchangeLog, oauthOnCloseCalls, oauthClosedBy,
                   oauthModalOpen>>
    /\ oauthOutcome' = [op |-> "exchange", ok |-> FALSE]
    /\ failedVerifiers' = failedVerifiers \cup {exchPending.pkce_verifier}
    /\ UNCHANGED pageVars
    /\ UNCHANGED oauthRest

\* the cancel button and the dialog's onOpenChange: onClose
OAuthCancel ==
    /\ oauthModalOpen
    /\ oauthOnCloseCalls' = oauthOnCloseCalls + 1
    /\ LoadAccounts
    /\ oauthClosedBy' = "cancel"
    /\ oauthModalOpen' = FALSE
    /\ UNCHANGED <<organizationUuid, accountType, authCode, loading, error, uuidError, step,
                   pkceVerifier, opc, genOrg, exchPending, openedWindows, exchangeLog>>
    /\ UNCHANGED <<oauthOutcome, failedVerifiers>>
    /\ UNCHANGED oauthRest

OAuthNext ==
    \/ \E value \in OrgInputs : SetOrganizationUuid(value)
    \/ \E value \in {"Pro", "Max"} : SetAccountType(value)
    \/ \E value \in CodeInputs : SetAuthCode(value)
    \/ HandleGenerateUrl
    \/ \E verifier \in Verifiers : GenerateResolves(verifier)
    \/ GenerateFails
    \/ HandleExchangeToken
    \/ ExchangeResolves
    \/ ExchangeRejects
    \/ OAuthCancel

-----------------------------------------------------------------------------
\* validateAndProcessCookie as a function: AccountModal's copy, and the inputs

AccountValidateAndProcessCookie(cookieValue) ==
    LET trimmed == Trim(cookieValue)
        processedValue == IF StartsWith(trimmed, SID01)
                          THEN SESSIONKEY \o trimmed ELSE trimmed
    IN  [isValid |-> StartsWith(processedValue, SESSIONKEY \o SID01),
         processedValue |-> processedValue]

CookiePieces ==
    { <<" ">>, <<"\n">>, SESSIONKEY, SID01, <<"X">>, <<"s","k","-","a","n","t">> }

RECURSIVE Concat(_)
Concat(ps) == IF ps = <<>> THEN <<>> ELSE Head(ps) \o Concat(Tail(ps))

CookieInputs ==
    UNION { { Concat(ps) : ps \in [1..n -> CookiePieces] } : n \in 0..MaxPieces }

NoResult == [isValid |-> FALSE, processedValue |-> <<>>]

CookieInit ==
    /\ cookieIn = <<>>
    /\ applied = FALSE
    /\ batchOut = NoResult
    /\ accountOut = NoResult

CookieInitAny ==
    /\ cookieIn \in CookieInputs
    /\ applied = FALSE
    /\ batchOut = NoResult
    /\ accountOut = NoResult

ApplyValidate ==
    /\ ~applied
    /\ applied' = TRUE
    /\ batchOut' = BatchValidateAndProcessCookie(cookieIn)
    /\ accountOut' = AccountValidateAndProcessCookie(cookieIn)
    /\ UNCHANGED cookieIn
    /\ UNCHANGED pageVars
    /\ UNCHANGED cookieRest

-----------------------------------------------------------------------------
\* AccountModal

\* a key left out of a request object
Absent == <<NONE>>

NoAccount ==
    [present |-> FALSE, organization_uuid |-> <<>>, cookie_value |-> <<>>,
     capabilities |-> <<>>]

NoRequest ==
    [kind |-> "none", id |-> <<>>, cookie_value |-> Absent, organization_uuid |-> Absent,
     capabilities |-> Absent]

BARE_KEY == SID01 \o <<"a">>

\* accounts the page can pass as props.account: one whose stored cookie is in a
\* reverse proxy's own format, and accounts with a standard cookie and no capabilities,
\* those of the Free tier and those of the Max tier
AccountProps ==
    { NoAccount,
      [present |-> TRUE, organization_uuid |-> UUID_CANONICAL, cookie_value |-> <<"X">>,
       capabilities |-> <<"chat", "claude_pro">>],
      [present |-> TRUE, organization_uuid |-> UUID_CANONICAL,
       cookie_value |-> SESSIONKEY \o BARE_KEY, capabilities |-> <<>>],
      [present |-> TRUE, organization_uuid |-> UUID_CANONICAL,
       cookie_value |-> SESSIONKEY \o BARE_KEY, capabilities |-> <<"chat">>],
      [present |-> TRUE, organization_uuid |-> UUID_CANONICAL,
       cookie_value |-> SESSIONKEY \o BARE_KEY, capabilities |-> <<"chat", "claude_max">>] }

CookieFormInputs ==
    { <<>>, <<" ">>, BARE_KEY, <<" ">> \o SESSIONKEY \o BARE_KEY \o <<"\n">>,
      <<"X">>, <<" ", "X", " ">> }

FormOrgInputs == { <<>>, UUID_UNDASHED, NOT_A_UUID }

Includes(caps, c) == \E k \in 1..Len(caps) : caps[k] = c

\* useEffect([account]): the account type shown for an account's capabilities
AccountTypeOf(caps) ==
    IF Len(caps) = 0 THEN "none"
    ELSE IF Includes(caps, "claude_max") THEN "Max"
    ELSE IF Includes(caps, "claude_pro") THEN "Pro"
    ELSE "Free"

\* the page's modalOpen flag being open and its editingAccount account, the state of
\* a modal just constructed, its effect run
AccountModalAs(open, account) ==
    /\ editingAccount = account
    /\ formCookie = <<>>
    /\ formOrg = IF account.present THEN account.organization_uuid ELSE <<>>
    /\ accAccountType = IF account.present THEN AccountTypeOf(account.capabilities)
                        ELSE "none"
    /\ accLoading = FALSE
    /\ showCookieAlert = FALSE
    /\ accUuidError = ""
    /\ apc = "idle"
    /\ accPending = NoRequest
    /\ accountOnCloseCalls = 0
    /\ accUnhandled = FALSE
    /\ accountModalOpen = open

AccountInit == AccountModalAs(TRUE, NoAccount)

AccountInitAny == \E account \in AccountProps : AccountModalAs(TRUE, account)

\* cookie textarea onChange
SetCookieValue(value) ==
    /\ accountModalOpen /\ ~showCookieAlert
    /\ formCookie' = value
    /\ UNCHANGED <<editingAccount, formOrg, accAccountType, accLoading, showCookieAlert,
                   accUuidError, apc, accPending, accountOnCloseCalls, accUnhandled,
                   accountModalOpen>>
    /\ UNCHANGED pageVars
    /\ UNCHANGED accountRest

\* organization input onChange (rendered when no account is edited)
SetFormOrganization(value) ==
    /\ accountModalOpen /\ ~showCookieAlert
    /\ ~editingAccount.present
    /\ formOrg' = value
    /\ accUuidError' = IF FormatUUID(value) # <<>> /\ ~IsValidUUID(FormatUUID(value))
                       THEN UuidFormatMsg ELSE ""
    /\ UNCHANGED <<editingAccount, formCookie, accAccountType, accLoading, showCookieAlert,
                   apc, accPending, accountOnCloseCalls, accUnhandled, accountModalOpen>>
    /\ UNCHANGED pageVars
    /\ UNCHANGED accountRest

\* account type select onValueChange
SetAccountTier(value) ==
    /\ accountModalOpen /\ ~showCookieAlert
    /\ accAccountType' = value
    /\ UNCHANGED <<editingAccount, formCookie, formOrg, accLoading, showCookieAlert,
                   accUuidError, apc, accPending, accountOnCloseCalls, accUnhandled,
                   accountModalOpen>>
    /\ UNCHANGED pageVars
    /\ UNCHANGED accountRest

\* the submit button's disabled condition
SubmitButtonEnabled ==
    ~(\/ accLoading
      \/ Trim(formCookie) = <<>>
      \/ (formOrg # <<>> /\ ~IsValidUUID(FormatUUID(formOrg))))

CapabilitiesOf_ProForMax(type) ==
    CASE type = "Free" -> <<"chat">>
      [] type = "Pro" -> <<"chat", "claude_pro">>
      [] type = "Max" -> <<"chat", "claude_pro">>
      [] OTHER -> Absent

\* handleSubmitAccount's switch on accountType
CapabilitiesOf(type) ==
    CASE type = "Free" -> <<"chat">>
      [] type = "Pro" -> <<"chat", "claude_pro">>
      [] type = "Max" -> <<"chat", "claude_max">>
      [] OTHER -> Absent

\* the request handleSubmitAccount builds from the form
RequestData(cookie) ==
    IF editingAccount.present
    THEN [kind |-> "update",
          id |-> editingAccount.organization_uuid,
          cookie_value |-> IF cookie # <<>> /\ cookie # editingAccount.cookie_value
                           THEN cookie ELSE Absent,
          organization_uuid |-> Absent,
          capabilities |-> CapabilitiesOf(accAccountType)]
    ELSE [kind |-> "create",
          id |-> <<>>,
          cookie_value |-> IF cookie # <<>> THEN cookie ELSE Absent,
          organization_uuid |-> IF formOrg # <<>> THEN FormatUUID(formOrg) ELSE Absent,
          capabilities |-> CapabilitiesOf(accAccountType)]

\* handleSubmitAccount up to its await, the form's cookie being cookie
HandleSubmitAccount(cookie) ==
    /\ accLoading' = TRUE
    /\ apc' = "await"
    /\ accPending' = RequestData(cookie)

\* handleSubmitForm (form onSubmit; the browser submits only through an enabled
\* submit button): normalise the cookie in the form, then ask or submit
HandleSubmitForm_NeverAsks ==
    /\ accountModalOpen /\ ~showCookieAlert /\ apc = "idle"
    /\ SubmitButtonEnabled
    /\ LET checked == AccountValidateAndProcessCookie(formCookie)
       IN  IF formCookie # <<>>
           THEN /\ formCookie' = checked.processedValue
                /\ HandleSubmitAccount(checked.processedValue)
                /\ UNCHANGED showCookieAlert
           ELSE /\ HandleSubmitAccount(formCookie)
                /\ UNCHANGED <<formCookie, showCookieAlert>>
    /\ UNCHANGED <<editingAccount, formOrg, accAccountType, accUuidError,
                   accountOnCloseCalls, accUnhandled, accountModalOpen>>
    /\ UNCHANGED pageVars
    /\ UNCHANGED accountRest

HandleSubmitForm ==
    /\ accountModalOpen /\ ~showCookieAlert /\ apc = "idle"
    /\ SubmitButtonEnabled
    /\ LET checked == AccountValidateAndProcessCookie(formCookie)
       IN  IF formCookie # <<>>
           THEN /\ formCookie' = checked.processedValue
                /\ IF ~checked.isValid
                   THEN /\ showCookieAlert' = TRUE
                        /\ UNCHANGED <<accLoading, apc, accPending>>
                   ELSE /\ HandleSubmitAccount(checked.processedValue)
                        /\ UNCHANGED showCookieAlert
           ELSE /\ HandleSubmitAccount(formCookie)
                /\ UNCHANGED <<formCookie, showCookieAlert>>
    /\ UNCHANGED <<editingAccount, formOrg, accAccountType, accUuidError,
                   accountOnCloseCalls, accUnhandled, accountModalOpen>>
    /\ UNCHANGED pageVars
    /\ UNCHANGED accountRest

\* handleCookieAlertConfirm (the alert's action button)
HandleCookieAlertConfirm ==
    /\ accountModalOpen /\ showCookieAlert
    /\ showCookieAlert' = FALSE
    /\ HandleSubmitAccount(formCookie)
    /\ UNCHANGED <<editingAccount, formCookie, formOrg, accAccountType, accUuidError,
                   accountOnCloseCalls, accUnhandled, accountModalOpen>>
    /\ UNCHANGED pageVars
    /\ UNCHANGED accountRest

\* the alert's cancel button and its onOpenChange(false)
CookieAlertCancel ==
    /\ accountModalOpen /\ showCookieAlert
    /\ showCookieAlert' = FALSE
    /\ UNCHANGED <<editingAccount, formCookie, formOrg, accAccountType, accLoading,
                   accUuidError, apc, accPending, accountOnCloseCalls, accUnhandled,
                   accountModalOpen>>
    /\ UNCHANGED pageVars
    /\ UNCHANGED accountRest

\* props.onClose is Accounts.handleModalClose
HandleModalClose ==
    /\ accountOnCloseCalls' = accountOnCloseCalls + 1
    /\ accountModalOpen' = FALSE
    /\ editingAccount' = NoAccount
    /\ LoadAccounts

\* the request resolved: onClose(), finally setLoading(false)
AccountRequestResolves ==
    /\ apc = "await"
    /\ HandleModalClose
    /\ accLoading' = IF accountModalOpen THEN FALSE ELSE accLoading
    /\ apc' = "idle"
    /\ accPending' = NoRequest
    /\ UNCHANGED <<formCookie, formOrg, accAccountType, showCookieAlert, accUuidError,
                   accUnhandled>>
    /\ UNCHANGED accountRest

\* the request rejected: finally setLoading(false); there is no catch, so the
\* rejection leaves handleSubmitAccount and the handler that awaited it
AccountRequestRejects ==
    /\ apc = "await"
    /\ accLoading' = IF accountModalOpen THEN FALSE ELSE accLoading
    /\ accUnhandled' = TRUE
    /\ apc' = "idle"
    /\ accPending' = NoRequest
    /\ UNCHANGED <<editingAccount, formCookie, formOrg, accAccountType, showCookieAlert,
                   accUuidError, accountOnCloseCalls, accountModalOpen>>
    /\ UNCHANGED pageVars
    /\ UNCHANGED accountRest

\* the cancel button and the dialog's onOpenChange: onClose
AccountCancel ==
    /\ accountModalOpen /\ ~showCookieAlert
    /\ HandleModalClose
    /\ UNCHANGED <<formCookie, formOrg, accAccountType, accLoading, showCookieAlert,
                   accUuidError, apc, accPending, accUnhandled>>
    /\ UNCHANGED accountRest

AccountNext ==
    \/ \E value \in CookieFormInputs : SetCookieValue(value)
    \/ \E value \in FormOrgInputs : SetFormOrganization(value)
    \/ \E value \in {"none", "Free", "Pro", "Max"} : SetAccountTier(value)
    \/ HandleSubmitForm
    \/ HandleCookieAlertConfirm
    \/ CookieAlertCancel
    \/ AccountRequestResolves
    \/ AccountRequestRejects
    \/ AccountCancel

-----------------------------------------------------------------------------
\* Settings page.  Of the fields of SettingsRead the model keeps one key list, one
\* text field and one switch; the other fields are handled by the same code.

MaxSaves == 2

Null == [null |-> TRUE]

FieldNames == {"api_keys", "admin_api_keys", "human_name", "preserve_chats"}

ApiKeys == {"k1"}

AdminKeys == {"a1"}

HumanNames == {"Human", "H"}

\* response.data of settingsApi.get()
LoadedSettings ==
    { [api_keys |-> <<"k1">>, admin_api_keys |-> <<"a1">>, human_name |-> "Human",
       preserve_chats |-> FALSE] }

NoUpdate == [changes |-> <<>>, committed |-> NONE, newSettings |-> Null, baseline |-> Null]

SettingsInit ==
    /\ settings = Null
    /\ originalSettings = Null
    /\ settingsLoading = TRUE
    /\ saveStatus = "idle"
    /\ newApiKey = ""
    /\ newAdminKey = ""
    /\ focus = NONE
    /\ loadPending = TRUE
    /\ savesInFlight = {}
    /\ resetTimers = 0
    /\ savesSent = 0
    /\ lastUpdate = NoUpdate
    /\ serverSettings = Null

\* loadSettings, settingsApi.get() resolved
LoadResolves(data) ==
    /\ loadPending
    /\ loadPending' = FALSE
    /\ settings' = data
    /\ originalSettings' = data
    /\ serverSettings' = data
    /\ settingsLoading' = FALSE
    /\ UNCHANGED <<saveStatus, newApiKey, newAdminKey, focus, savesInFlight, resetTimers, savesSent,
                   lastUpdate>>
    /\ UNCHANGED settingsRest

\* loadSettings, settingsApi.get() rejected: catch, finally setLoading(false)
LoadRejects ==
    /\ loadPending
    /\ loadPending' = FALSE
    /\ settingsLoading' = FALSE
    /\ UNCHANGED <<settings, originalSettings, saveStatus, newApiKey, newAdminKey, focus,
                   savesInFlight,
                   resetTimers, savesSent, lastUpdate, serverSettings>>
    /\ UNCHANGED settingsRest

\* handleFieldChange's loop: the keys whose JSON.stringify differs from the baseline
ChangedKeys_All(newSettings, original) ==
    FieldNames

ChangedKeys(newSettings, original) ==
    { key \in FieldNames : newSettings[key] # original[key] }

\* { ...original, ...changes }
MergeChanges(original, changes) ==
    [key \in DOMAIN original |-> IF key \in DOMAIN changes THEN changes[key]
                                                            ELSE original[key]]

\* handleFieldChange(newSettings) up to the await in saveChanges; committed names the
\* field whose edit called it, andThenClear says that the caller clears newApiKey when
\* the awaited handleFieldChange returns
HandleFieldChange(newSettings, committed, andThenClear) ==
    LET keys == ChangedKeys(newSettings, originalSettings)
        changes == [key \in keys |-> newSettings[key]]
    IN  /\ settings' = newSettings
        /\ IF keys = {}
           THEN /\ newApiKey' = IF andThenClear /\ committed = "api_keys" THEN "" ELSE newApiKey
                /\ newAdminKey' = IF andThenClear /\ committed = "admin_api_keys"
                                  THEN "" ELSE newAdminKey
                /\ UNCHANGED <<saveStatus, savesInFlight, savesSent, lastUpdate>>
           ELSE /\ savesSent < MaxSaves
                /\ saveStatus' = "saving"
                /\ savesSent' = savesSent + 1
                /\ savesInFlight' = savesInFlight \cup
                        {[id |-> savesSent + 1, changes |-> changes,
                          baseline |-> originalSettings, committed |-> committed,
                          andThenClear |-> andThenClear]}
                /\ lastUpdate' = [changes |-> changes, committed |-> committed,
                                  newSettings |-> newSettings,
                                  baseline |-> originalSettings]
                /\ UNCHANGED <<newApiKey, newAdminKey>>
        /\ UNCHANGED <<originalSettings, settingsLoading, loadPending, resetTimers,
                       serverSettings>>

\* human_name input onChange: updateSettings
EditHumanName(value) ==
    /\ settings # Null
    /\ focus \in {NONE, "human_name"}
    /\ focus' = "human_name"
    /\ settings' = [settings EXCEPT !.human_name = value]
    /\ UNCHANGED <<originalSettings, settingsLoading, saveStatus, newApiKey, newAdminKey,
                   loadPending,
                   savesInFlight, resetTimers, savesSent, lastUpdate, serverSettings>>
    /\ UNCHANGED settingsRest

\* human_name input onBlur; any click elsewhere on the page blurs the field first
BlurHumanName ==
    /\ focus = "human_name"
    /\ focus' = NONE
    /\ HandleFieldChange(settings, "human_name", FALSE)
    /\ UNCHANGED settingsRest

\* preserve_chats switch onCheckedChange
TogglePreserveChats ==
    /\ settings # Null
    /\ focus = NONE
    /\ HandleFieldChange([settings EXCEPT !.preserve_chats = ~settings.preserve_chats],
                         "preserve_chats", FALSE)
    /\ UNCHANGED focus
    /\ UNCHANGED settingsRest

\* new key input onChange, generateNewKey('api')
SetNewApiKey(value) ==
    /\ settings # Null
    /\ focus = NONE
    /\ newApiKey' = value
    /\ UNCHANGED <<newAdminKey, settings, originalSettings, settingsLoading, saveStatus, focus,
                   loadPending, savesInFlight, resetTimers, savesSent, lastUpdate,
                   serverSettings>>
    /\ UNCHANGED settingsRest

ListIncludes_Never(list, key) == FALSE

ListIncludes(list, key) == \E k \in 1..Len(list) : list[k] = key

\* list.filter(k => k !== key)
RECURSIVE Without(_, _)
Without(list, key) ==
    IF list = <<>> THEN <<>>
    ELSE IF Head(list) = key THEN Without(Tail(list), key)
    ELSE <<Head(list)>> \o Without(Tail(list), key)

\* the add buttons: disabled={!newApiKey}, disabled={!newAdminKey}
AddApiKeyEnabled == newApiKey # ""

AddAdminKeyEnabled == newAdminKey # ""

\* handleAddApiKey
HandleAddApiKey ==
    /\ settings # Null
    /\ focus = NONE
    /\ AddApiKeyEnabled
    /\ IF newApiKey = "" \/ ListIncludes(settings.api_keys, newApiKey)
       THEN UNCHANGED <<settings, saveStatus, newApiKey, newAdminKey, savesInFlight, savesSent,
                        lastUpdate, originalSettings, settingsLoading, loadPending,
                        resetTimers, serverSettings>>
       ELSE HandleFieldChange(
                [settings EXCEPT !.api_keys = Append(settings.api_keys, newApiKey)],
                "api_keys", TRUE)
    /\ UNCHANGED focus
    /\ UNCHANGED settingsRest

\* handleRemoveApiKey(key), from the confirmation dialog of a listed key
HandleRemoveApiKey(key) ==
    /\ settings # Null
    /\ focus = NONE
    /\ ListIncludes(settings.api_keys, key)
    /\ HandleFieldChange([settings EXCEPT !.api_keys = Without(settings.api_keys, key)],
                         "api_keys", FALSE)
    /\ UNCHANGED focus
    /\ UNCHANGED settingsRest

\* new admin key input onChange, generateNewKey('admin')
SetNewAdminKey(value) ==
    /\ settings # Null
    /\ focus = NONE
    /\ newAdminKey' = value
    /\ UNCHANGED <<newApiKey, settings, originalSettings, settingsLoading, saveStatus, focus,
                   loadPending, savesInFlight, resetTimers, savesSent, lastUpdate,
                   serverSettings>>
    /\ UNCHANGED settingsRest

\* handleAddAdminKey
HandleAddAdminKey ==
    /\ settings # Null
    /\ focus = NONE
    /\ AddAdminKeyEnabled
    /\ IF newAdminKey = "" \/ ListIncludes(settings.admin_api_keys, newAdminKey)
       THEN UNCHANGED <<settings, saveStatus, newApiKey, newAdminKey, savesInFlight, savesSent,
                        lastUpdate, originalSettings, settingsLoading, loadPending,
                        resetTimers, serverSettings>>
       ELSE HandleFieldChange(
                [settings EXCEPT !.admin_api_keys = Append(settings.admin_api_keys, newAdminKey)],
                "admin_api_keys", TRUE)
    /\ UNCHANGED focus
    /\ UNCHANGED settingsRest

\* handleRemoveAdminKey(key), from the confirmation dialog of a listed key
HandleRemoveAdminKey(key) ==
    /\ settings # Null
    /\ focus = NONE
    /\ ListIncludes(settings.admin_api_keys, key)
    /\ HandleFieldChange(
            [settings EXCEPT !.admin_api_keys = Without(settings.admin_api_keys, key)],
            "admin_api_keys", FALSE)
    /\ UNCHANGED focus
    /\ UNCHANGED settingsRest

\* saveChanges, settingsApi.update resolved: setSaveStatus('saved'), the baseline set
\* from the captured originalSettings, the 3 s timer; then handleAddApiKey's
\* setNewApiKey('')
SaveResolves(id) ==
    /\ \E save \in savesInFlight : save.id = id
    /\ LET save == CHOOSE save \in savesInFlight : save.id = id
       IN  /\ savesInFlight' = savesInFlight \ {save}
           /\ saveStatus' = "saved"
           /\ originalSettings' = MergeChanges(save.baseline, save.changes)
           /\ serverSettings' = MergeChanges(serverSettings, save.changes)
           /\ resetTimers' = resetTimers + 1
           /\ newApiKey' = IF save.andThenClear /\ save.committed = "api_keys"
                           THEN "" ELSE newApiKey
           /\ newAdminKey' = IF save.andThenClear /\ save.committed = "admin_api_keys"
                             THEN "" ELSE newAdminKey
           /\ UNCHANGED <<settings, settingsLoading, focus, loadPending, savesSent, lastUpdate>>
    /\ UNCHANGED settingsRest

\* saveChanges, settingsApi.update rejected: catch { setSaveStatus('error') }, the 5 s
\* timer; then handleAddApiKey's setNewApiKey('')
SaveRejects(id) ==
    /\ \E save \in savesInFlight : save.id = id
    /\ LET save == CHOOSE save \in savesInFlight : save.id = id
       IN  /\ savesInFlight' = savesInFlight \ {save}
           /\ saveStatus' = "error"
           /\ resetTimers' = resetTimers + 1
           /\ newApiKey' = IF save.andThenClear /\ save.committed = "api_keys"
                           THEN "" ELSE newApiKey
           /\ newAdminKey' = IF save.andThenClear /\ save.committed = "admin_api_keys"
                             THEN "" ELSE newAdminKey
           /\ UNCHANGED <<settings, originalSettings, settingsLoading, focus, loadPending,
                          savesSent, lastUpdate, serverSettings>>
    /\ UNCHANGED settingsRest

\* a reset timer fires: setSaveStatus('idle')
ResetTimerFires ==
    /\ resetTimers > 0
    /\ resetTimers' = resetTimers - 1
    /\ saveStatus' = "idle"
    /\ UNCHANGED <<settings, originalSettings, settingsLoading, newApiKey, newAdminKey, focus,
                   loadPending, savesInFlight, savesSent, lastUpdate, serverSettings>>
    /\ UNCHANGED settingsRest

SettingsNext ==
    \/ \E data \in LoadedSettings : LoadResolves(data)
    \/ LoadRejects
    \/ \E value \in HumanNames : EditHumanName(value)
    \/ BlurHumanName
    \/ TogglePreserveChats
    \/ \E value \in ApiKeys \cup {""} : SetNewApiKey(value)
    \/ HandleAddApiKey
    \/ \E key \in ApiKeys : HandleRemoveApiKey(key)
    \/ \E id \in 1..MaxSaves : SaveResolves(id)
    \/ \E id \in 1..MaxSaves : SaveRejects(id)
    \/ ResetTimerFires

\* The two key lists of the page, with the saves their edits start
KeysNext ==
    \/ \E data \in LoadedSettings : LoadResolves(data)
    \/ LoadRejects
    \/ \E value \in ApiKeys \cup {""} : SetNewApiKey(value)
    \/ HandleAddApiKey
    \/ \E key \in ApiKeys : HandleRemoveApiKey(key)
    \/ \E value \in AdminKeys \cup {""} : SetNewAdminKey(value)
    \/ HandleAddAdminKey
    \/ \E key \in AdminKeys : HandleRemoveAdminKey(key)
    \/ \E id \in 1..MaxSaves : SaveResolves(id)
    \/ \E id \in 1..MaxSaves : SaveRejects(id)
    \/ ResetTimerFires

-----------------------------------------------------------------------------
\* Login page

MaxAttempts == 3

\* a localStorage item: absent, or present with a string value
NoItem == [present |-> FALSE, value |-> <<>>]

Item(value) == [present |-> TRUE, value |-> value]

\* what a user may type into the key field
AdminKeyInputs == { <<>>, <<" ">>, <<"k", "0">>, <<"k", "1">>, <<" ", "k", "2">> }

\* the item before the page is used: none, or the key of an earlier session
StoredItems == { NoItem, Item(<<"k", "0">>) }

NoCheck == [sent |-> FALSE, stored |-> NoItem, attempt |-> 0]

LoginAs(item) ==
    /\ adminKey = <<>>
    /\ loginError = ""
    /\ loginLoading = FALSE
    /\ storedAdminKey = item
    /\ lpc = "idle"
    /\ loginCheck = NoCheck
    /\ navigations = <<>>
    /\ loginOutcome = "none"
    /\ storedBefore = NoItem
    /\ loginMounted = TRUE

LoginInit == LoginAs(NoItem)

LoginInitAny == \E item \in StoredItems : LoginAs(item)

\* key input onChange
SetAdminKey(value) ==
    /\ loginMounted
    /\ adminKey # value
    /\ adminKey' = value
    /\ UNCHANGED <<loginError, loginLoading, storedAdminKey, lpc, loginCheck, navigations,
                   loginOutcome, storedBefore, loginMounted>>
    /\ UNCHANGED loginRest

\* the submit button's disabled condition
LoginButtonEnabled == ~(loginLoading \/ Trim(adminKey) = <<>>)

\* handleSubmit up to its await: the key is stored, then statisticsApi.get() is called
\* and reads the stored item
LoginHandleSubmit ==
    /\ loginMounted /\ lpc = "idle"
    /\ LoginButtonEnabled
    /\ loginCheck.attempt < MaxAttempts
    /\ loginError' = ""
    /\ loginLoading' = TRUE
    /\ storedBefore' = storedAdminKey
    /\ storedAdminKey' = Item(adminKey)
    /\ loginCheck' = [sent |-> TRUE, stored |-> Item(adminKey),
                      attempt |-> loginCheck.attempt + 1]
    /\ loginOutcome' = "none"
    /\ lpc' = "await"
    /\ UNCHANGED <<adminKey, navigations, loginMounted>>
    /\ UNCHANGED loginRest

\* statisticsApi.get() resolved: navigate('/') replaces the page; finally
LoginResolves ==
    /\ lpc = "await"
    /\ lpc' = "idle"
    /\ loginCheck' = [loginCheck EXCEPT !.sent = FALSE]
    /\ navigations' = Append(navigations, "/")
    /\ loginMounted' = FALSE
    /\ loginLoading' = FALSE
    /\ loginOutcome' = "ok"
    /\ UNCHANGED <<adminKey, loginError, storedAdminKey, storedBefore>>
    /\ UNCHANGED loginRest

LoginRejects_KeepsKey ==
    /\ lpc = "await"
    /\ lpc' = "idle"
    /\ loginCheck' = [loginCheck EXCEPT !.sent = FALSE]
    /\ loginError' = "invalid"
    /\ loginLoading' = FALSE
    /\ loginOutcome' = "failed"
    /\ UNCHANGED <<adminKey, storedAdminKey, navigations, storedBefore, loginMounted>>
    /\ UNCHANGED loginRest

\* statisticsApi.get() rejected: catch { setError; removeItem }, finally
LoginRejects ==
    /\ lpc = "await"
    /\ lpc' = "idle"
    /\ loginCheck' = [loginCheck EXCEPT !.sent = FALSE]
    /\ loginError' = "invalid"
    /\ storedAdminKey' = NoItem
    /\ loginLoading' = FALSE
    /\ loginOutcome' = "failed"
    /\ UNCHANGED <<adminKey, navigations, storedBefore, loginMounted>>
    /\ UNCHANGED loginRest

LoginNext ==
    \/ \E value \in AdminKeyInputs : SetAdminKey(value)
    \/ LoginHandleSubmit
    \/ LoginResolves
    \/ LoginRejects

-----------------------------------------------------------------------------
\* generatePKCE: both values are btoa of a byte string with '+' and '/' replaced and
\* '=' removed

VerifierBytes == 32

\* the standard base64 alphabet
B64 ==
    << "A","B","C","D","E","F","G","H","I","J","K","L","M","N","O","P",
       "Q","R","S","T","U","V","W","X","Y","Z","a","b","c","d","e","f",
       "g","h","i","j","k","l","m","n","o","p","q","r","s","t","u","v",
       "w","x","y","z","0","1","2","3","4","5","6","7","8","9","+","/" >>

\* the char codes of the same characters ('A' = 65, 'a' = 97, '0' = 48, '+' = 43,
\* '/' = 47)
B64Code ==
    [ k \in 1..64 |-> IF k <= 26 THEN 64 + k
                      ELSE IF k <= 52 THEN 70 + k
                      ELSE IF k <= 62 THEN k - 5
                      ELSE IF k = 63 THEN 43 ELSE 47 ]

\* btoa(String.fromCharCode.apply(null, bytes)): padded standard base64
RECURSIVE Btoa(_)
Btoa(bytes) ==
    IF Len(bytes) = 0 THEN <<>>
    ELSE IF Len(bytes) = 1
    THEN << B64[(bytes[1] \div 4) + 1], B64[((bytes[1] % 4) * 16) + 1], "=", "=" >>
    ELSE IF Len(bytes) = 2
    THEN << B64[(bytes[1] \div 4) + 1],
            B64[((bytes[1] % 4) * 16) + (bytes[2] \div 16) + 1],
            B64[((bytes[2] % 16) * 4) + 1], "=" >>
    ELSE << B64[(bytes[1] \div 4) + 1],
            B64[((bytes[1] % 4) * 16) + (bytes[2] \div 16) + 1],
            B64[((bytes[2] % 16) * 4) + (bytes[3] \div 64) + 1],
            B64[(bytes[3] % 64) + 1] >> \o Btoa(SubSeq(bytes, 4, Len(bytes)))

\* s.replace(/c/g, by) for a one-character pattern; by is a string of length 0 or 1
ReplaceAll(s, c, by) ==
    IF by = <<>> THEN SelectSeq(s, LAMBDA x : x # c)
    ELSE [k \in 1..Len(s) |-> IF s[k] = c THEN by[1] ELSE s[k]]

Base64Url_Standard(bytes) == ReplaceAll(Btoa(bytes), "=", <<>>)

Base64Url(bytes) ==
    ReplaceAll(ReplaceAll(ReplaceAll(Btoa(bytes), "+", <<"-">>), "/", <<"_">>), "=", <<>>)

\* new TextEncoder().encode(s) for a string of base64url characters: one byte per
\* character, its char code
Utf8Code(c) ==
    IF c = "-" THEN 45
    ELSE IF c = "_" THEN 95
    ELSE IF c = "=" THEN 61
    ELSE B64Code[CHOOSE k \in 1..64 : B64[k] = c]

Encode(s) == [k \in 1..Len(s) |-> Utf8Code(s[k])]

\* byte strings of a given length: what getRandomValues may fill in, what a digest
\* may return
ByteStrings(n) ==
    { [k \in 1..n |-> 0],
      [k \in 1..n |-> 255],
      [k \in 1..n |-> IF k % 3 = 1 THEN 251 ELSE IF k % 3 = 2 THEN 239 ELSE 190],
      [k \in 1..n |-> ((k * 37) + 11) % 256],
      [k \in 1..n |-> ((k * 101) + 7) % 256],
      [k \in 1..n |-> IF k % 2 = 0 THEN 62 ELSE 63],
      [k \in 1..n |-> 255 - k],
      [k \in 1..n |-> IF k = n THEN 1 ELSE 128] }

NoCall == [algorithm |-> "", data |-> <<>>]

PkceInit ==
    /\ randomBytes = <<>>
    /\ pkVerifier = <<>>
    /\ digestCall = NoCall
    /\ digestBytes = <<>>
    /\ pkChallenge = <<>>
    /\ gpc = "start"

\* generatePKCE up to the promise it returns: the verifier, the digest call
GeneratePKCE(array) ==
    /\ gpc \in {"start", "returned"}
    /\ randomBytes' = array
    /\ pkVerifier' = Base64Url(array)
    /\ digestCall' = [algorithm |-> "SHA-256", data |-> Encode(Base64Url(array))]
    /\ digestBytes' = <<>>
    /\ pkChallenge' = <<>>
    /\ gpc' = "digest"
    /\ UNCHANGED pkceRest

\* crypto.subtle.digest resolves with the 32 bytes of the digest
DigestResolves(buffer) ==
    /\ gpc = "digest"
    /\ digestBytes' = buffer
    /\ gpc' = "hashed"
    /\ UNCHANGED <<randomBytes, pkVerifier, digestCall, pkChallenge>>
    /\ UNCHANGED pkceRest

\* the then callback: { verifier, challenge }
ChallengeComputed ==
    /\ gpc = "hashed"
    /\ pkChallenge' = Base64Url(digestBytes)
    /\ gpc' = "returned"
    /\ UNCHANGED <<randomBytes, pkVerifier, digestCall, digestBytes>>
    /\ UNCHANGED pkceRest

PkceNext ==
    \/ \E array \in ByteStrings(VerifierBytes) : GeneratePKCE(array)
    \/ \E buffer \in ByteStrings(32) : DigestResolves(buffer)
    \/ ChallengeComputed

-----------------------------------------------------------------------------
\* Specifications: one per component, the other components at rest

PageInit == listCalls = 1

Init == BatchInit /\ OAuthInit /\ CookieInit /\ AccountInit /\ PageInit /\ SettingsInit
    /\ LoginInit /\ PkceInit

Next == BatchNext

Spec == Init /\ [][Next]_vars

\* The batch modal with the copy button of its results view
BatchCopyNext ==
    \/ BatchNext
    \/ \E written \in BOOLEAN : CopyFailedCookies(written)

SpecBatchCopy == Init /\ [][BatchCopyNext]_vars

SpecOAuth == Init /\ [][OAuthNext]_vars

InitCookie == BatchInit /\ OAuthInit /\ CookieInitAny /\ AccountInit /\ PageInit /\ SettingsInit
    /\ LoginInit /\ PkceInit

SpecCookie == InitCookie /\ [][ApplyValidate]_vars

InitAccount == BatchInit /\ OAuthInit /\ CookieInit /\ AccountInitAny /\ PageInit /\ SettingsInit
    /\ LoginInit /\ PkceInit

SpecAccount == InitAccount /\ [][AccountNext]_vars

\* The Accounts page with one of its three modals open (a dialog makes the page
\* behind it inert, so no second modal opens before the first has closed)
InitPage ==
    /\ PageInit
    /\ CookieInit
    /\ SettingsInit
    /\ LoginInit
    /\ PkceInit
    /\ \E modal \in {"batch", "oauth", "account"} :
            /\ BatchModalAs(modal = "batch")
            /\ OAuthModalAs(modal = "oauth")
            /\ IF modal = "account" THEN AccountInitAny ELSE AccountModalAs(FALSE, NoAccount)

PageNext ==
    \/ BatchNext
    \/ OAuthNext
    \/ AccountNext

SpecPage == InitPage /\ [][PageNext]_vars

SpecSettings == Init /\ [][SettingsNext]_vars

SpecKeys == Init /\ [][KeysNext]_vars

InitLogin ==
    /\ BatchInit /\ OAuthInit /\ CookieInit /\ AccountInit /\ PageInit /\ SettingsInit
    /\ LoginInitAny /\ PkceInit

SpecLogin == InitLogin /\ [][LoginNext]_vars

SpecPkce == Init /\ [][PkceNext]_vars

\* The batch run with the scheduling the event loop gives it: synchronous code runs
\* on, the 300 ms timer fires, and (the premise of C5) every create call completes
CreateCompletes ==
    \/ \E org \in Organizations : CreateResolves(org)
    \/ \E detail \in RejectDetails : CreateRejects(detail)

SpecLive ==
    /\ Spec
    /\ WF_vars(LoopHead)
    /\ WF_vars(Validate)
    /\ WF_vars(DelayElapses)
    /\ WF_vars(CreateCompletes)

-----------------------------------------------------------------------------
\* Properties of the batch cookie processor

Rows == 1..Len(results)
RowDone(j) == results[j].status \in {"success", "error"}
AllRowsDone == \A j \in Rows : RowDone(j)
RunInProgress == \E j \in Rows : results[j].status \in {"pending", "processing"}
RowIsValid(j) == BatchValidateAndProcessCookie(results[j].cookie).isValid
CallsForRow(j) == { k \in 1..Len(createLog) : createLog[k].row = j - 1 }

RowStep(old, new) ==
    \/ new = old
    \/ old = "pending" /\ new = "processing"
    \/ old = "processing" /\ new \in {"success", "error"}

\* C1: during a run of handleSubmit every row starts 'pending' and its status moves
\* only pending -> processing -> success|error: no step goes backwards, none reaches
\* success/error from pending, and a success/error row never changes again.
C1_StatusOnlyAdvances ==
    [][ /\ results = <<>> => \A j \in 1..Len(results') : results'[j].status = "pending"
        /\ results # <<>> =>
              /\ Len(results') = Len(results)
              /\ \A j \in Rows : RowStep(results[j].status, results'[j].status) ]_vars

C1_Witness ==
    /\ bpc = "done"
    /\ \E j \in Rows : results[j].status = "success"
    /\ \E j \in Rows : results[j].status = "error"

\* C2: the loop is strictly sequential: at most one row is 'processing', the rows
\* before it are success/error and the rows after it are pending, at most one create
\* call is in flight, and a row leaves 'pending' only after the row before it has its
\* outcome.
C2_StrictlySequential ==
    /\ Cardinality({ j \in Rows : results[j].status = "processing" }) <= 1
    /\ \A j \in Rows : results[j].status = "processing" =>
          /\ \A k \in Rows : k < j => RowDone(k)
          /\ \A k \in Rows : k > j => results[k].status = "pending"
    /\ Cardinality(createPending) <= 1
    /\ \A j \in Rows : (j > 1 /\ results[j].status # "pending") => RowDone(j - 1)

C2_Witness ==
    /\ Len(results) = 3
    /\ RowDone(1)
    /\ results[2].status = "processing"
    /\ results[3].status = "pending"
    /\ Cardinality(createPending) = 1

\* C3 as stated: the 300 ms delay has elapsed after every row's outcome, validation
\* failure included, before the next row is marked 'processing'.
C3_DelayAfterEveryOutcome ==
    \A j \in Rows : (j > 1 /\ results[j].status # "pending") => (j - 2) \in delayedAfter

\* C3 amended: the 300 ms delay has elapsed after every row that was submitted to the
\* backend (create resolved or rejected) before the next row is marked 'processing';
\* after a validation failure the next row is taken up without the delay.
C3_DelayAfterEverySubmittedRow ==
    \A j \in Rows : (j > 1 /\ results[j].status # "pending") =>
        ((j - 2) \in delayedAfter <=> RowIsValid(j - 1))

C3_Witness ==
    /\ Len(results) >= 2
    /\ results[2].status # "pending"
    /\ results[1].status = "error"
    /\ RowIsValid(1)
    /\ 0 \in delayedAfter

\* C4: an invalid line ends 'error' with the fixed invalid-format message and no create
\* call; a valid line gets exactly one create call, with the normalized value, and ends
\* 'success' with the returned organization identifier or 'error' with the backend's
\* detail message (the generic message when there is none); the run makes as many
\* create calls as there are valid lines.
C4_OutcomePerLine ==
    /\ \A j \in Rows :
          LET v == BatchValidateAndProcessCookie(results[j].cookie)
              calls == CallsForRow(j)
          IN  IF ~v.isValid
              THEN /\ calls = {}
                   /\ RowDone(j) => /\ results[j].status = "error"
                                    /\ results[j].error = InvalidFormatMsg
              ELSE /\ Cardinality(calls) <= 1
                   /\ \A k \in calls : createLog[k].value = v.processedValue
                   /\ RowDone(j) =>
                         /\ Cardinality(calls) = 1
                         /\ \A k \in calls :
                               LET o == createLog[k].outcome
                               IN  \/ /\ o.state = "resolved"
                                      /\ results[j].status = "success"
                                      /\ results[j].organizationUuid = o.organization_uuid
                                   \/ /\ o.state = "rejected"
                                      /\ results[j].status = "error"
                                      /\ results[j].error =
                                            IF o.detail \in {NONE, ""}
                                            THEN AddFailedMsg ELSE o.detail
    /\ bpc = "done" =>
          Len(createLog) = Cardinality({ j \in Rows : RowIsValid(j) })

C4_Witness ==
    /\ bpc = "done"
    /\ Len(results) = 3
    /\ results[1].status = "success"
    /\ results[2].status = "error" /\ results[2].error = InvalidFormatMsg
    /\ results[3].status = "error" /\ results[3].error = "cookie already exists"
    /\ Len(createLog) = 2

\* C5: failures are isolated per line and the run completes: once started, and given
\* that every create call completes, the run ends with isProcessing false and every
\* row success or error, whatever rows failed.
C5_RunsToCompletion ==
    /\ [](bpc = "done" => (~isProcessing /\ AllRowsDone))
    /\ (isProcessing ~> (bpc = "done" /\ ~isProcessing /\ AllRowsDone))

C5_Witness ==
    /\ bpc = "done" /\ ~isProcessing
    /\ Len(results) = 3
    /\ results[1].status = "error" /\ ~RowIsValid(1)
    /\ results[2].status = "error" /\ RowIsValid(2)
    /\ results[3].status = "success"

\* C6: while any row is pending or processing isProcessing is true and no step calls
\* onClose or unmounts the modal: handleClose returns at once.
C6_NoCloseWhileRunning ==
    /\ [](RunInProgress => isProcessing)
    /\ [][RunInProgress => /\ batchOnCloseCalls' = batchOnCloseCalls
                           /\ batchModalOpen' = batchModalOpen]_vars

C6_Witness ==
    /\ RunInProgress
    /\ closeRefused
    /\ batchOnCloseCalls = 0
    /\ batchModalOpen

\* handleClose, invoked now, calls onClose
CloseCallsOnClose == ENABLED (HandleClose /\ batchOnCloseCalls' = batchOnCloseCalls + 1)

\* C7 as stated: whenever all rows are success or error, handleClose calls onClose.
C7_CloseOnceAllRowsDone ==
    (batchModalOpen /\ BatchSuspended /\ results # <<>> /\ AllRowsDone) => CloseCallsOnClose

\* C7 amended: whenever all rows are success or error and the loop is not waiting in
\* the 300 ms delay that follows the last submitted row (so handleSubmit has returned
\* and reset isProcessing), handleClose calls onClose.
C7_CloseOnceRunEnded ==
    (batchModalOpen /\ BatchSuspended /\ results # <<>> /\ AllRowsDone /\ bpc # "delay")
        => CloseCallsOnClose

C7_Witness ==
    /\ bpc = "done"
    /\ results # <<>> /\ AllRowsDone
    /\ ~batchModalOpen
    /\ batchOnCloseCalls = 1

-----------------------------------------------------------------------------
\* Properties of validateAndProcessCookie

IsSpace(c) == c \in (WhiteSpace \cup LineTerminator)

Substrings(s) == { SubSeq(s, a + 1, b) : a \in 0..Len(s), b \in 0..Len(s) }

\* t is s without its leading and trailing white space
IsTrimOf(t, s) ==
    \E a \in 0..Len(s) : \E b \in a..Len(s) :
        /\ t = SubSeq(s, a + 1, b)
        /\ \A k \in 1..a : IsSpace(s[k])
        /\ \A k \in (b + 1)..Len(s) : IsSpace(s[k])
        /\ t # <<>> => (~IsSpace(t[1]) /\ ~IsSpace(t[Len(t)]))

\* C8: the result is the trimmed input, with 'sessionKey=' prepended exactly when the
\* trimmed input starts with 'sk-ant-sid01-'; it is valid exactly when the result
\* starts with 'sessionKey=sk-ant-sid01-'; 'sk-ant-sid01-X' gives
\* 'sessionKey=sk-ant-sid01-X', valid; the account modal's copy returns the same.
C8_NormalizeAndValidate ==
    applied =>
        /\ \E t \in Substrings(cookieIn) :
              /\ IsTrimOf(t, cookieIn)
              /\ batchOut.processedValue =
                    IF StartsWith(t, SID01) THEN SESSIONKEY \o t ELSE t
        /\ batchOut.isValid <=> StartsWith(batchOut.processedValue, SESSIONKEY \o SID01)
        /\ (StartsWith(cookieIn, SID01) /\ IsTrimOf(cookieIn, cookieIn))
              => (batchOut.isValid /\ batchOut.processedValue = SESSIONKEY \o cookieIn)
        /\ accountOut = batchOut

C8_Witness ==
    /\ applied
    /\ cookieIn = <<" ">> \o SID01 \o <<"X">>
    /\ batchOut.isValid
    /\ batchOut.processedValue = SESSIONKEY \o SID01 \o <<"X">>

-----------------------------------------------------------------------------
\* Properties of the OAuth flow controller

UsableIdentifier(id) == Trim(id) # <<>> /\ IsValidUUID(FormatUUID(id))

\* C9: the step is 'input' until an authorization window has been opened; the only
\* step change is input -> code, made when a pending handleGenerateUrl completes
\* without exception (it opens the window and leaves no error); 'code' never goes back
\* to 'input'; the modal is closed only by onClose, called after a resolved exchange
\* or by the user's cancel, and stays closed.
C9_StepInputThenCode ==
    /\ [](openedWindows = <<>> => step = "input")
    /\ [][step' # step =>
            /\ step = "input" /\ step' = "code"
            /\ opc = "genAwait" /\ opc' = "idle"
            /\ Len(openedWindows') = Len(openedWindows) + 1
            /\ error' = ""]_vars
    /\ [][(oauthModalOpen /\ ~oauthModalOpen') =>
            /\ oauthOnCloseCalls' = oauthOnCloseCalls + 1
            /\ \/ oauthClosedBy' = "cancel"
               \/ oauthClosedBy' = "exchange" /\ opc = "exchAwait" /\ step = "code"]_vars
    /\ [][~oauthModalOpen => ~oauthModalOpen']_vars

C9_Witness ==
    /\ step = "code"
    /\ ~oauthModalOpen
    /\ oauthClosedBy = "exchange"
    /\ Len(exchangeLog) = 2

\* C10: handleGenerateUrl proceeds only with an organization identifier that is
\* non-empty after trimming and that formatUUID turns into a valid UUID: only then is a
\* run started, every window opened carries a valid UUID, and while the identifier is
\* empty or not a UUID no run starts, so no window opens and the step stays 'input'.
C10_GenerateNeedsValidUuid ==
    /\ [](opc = "genAwait" => UsableIdentifier(genOrg))
    /\ [](\A k \in 1..Len(openedWindows) : IsValidUUID(openedWindows[k].organization_uuid))
    /\ [][(opc # "genAwait" /\ opc' = "genAwait") =>
            (UsableIdentifier(organizationUuid) /\ genOrg' = organizationUuid)]_vars
    /\ [][(opc # "genAwait" /\ ~UsableIdentifier(organizationUuid)) =>
            (opc' # "genAwait" /\ openedWindows' = openedWindows /\ step' = step)]_vars
    /\ [][openedWindows' # openedWindows => opc = "genAwait"]_vars

C10_Witness ==
    /\ step = "code"
    /\ organizationUuid = UUID_UNDASHED
    /\ Len(openedWindows) = 1
    /\ openedWindows[1].organization_uuid = UUID_CANONICAL

\* C11: in step 'code', while the pasted code is empty after trimming, the exchange is
\* blocked: the exchange button is disabled, no step sends a request to the
\* token-exchange endpoint or changes the step, and so every request that was sent
\* carries a code that is non-empty after trimming.
C11_EmptyCodeBlocksExchange ==
    /\ []((step = "code" /\ Trim(authCode) = <<>>) => ~ExchangeButtonEnabled)
    /\ [](\A k \in 1..Len(exchangeLog) : Trim(exchangeLog[k].code) # <<>>)
    /\ [][(step = "code" /\ Trim(authCode) = <<>>) =>
            (exchangeLog' = exchangeLog /\ step' = "code")]_vars

C11_Witness ==
    /\ oauthModalOpen
    /\ step = "code"
    /\ opc = "idle"
    /\ authCode = <<" ">>
    /\ Len(exchangeLog) = 1
    /\ error = ExchangeFailedMsg

\* C12: every exchange request is bound to the authorization request before it: its
\* pkce_verifier is the state parameter of the URL opened last, that URL's
\* code_challenge is derived from the same verifier, and its organization identifier is
\* the one placed in that URL.
C12_ExchangeBoundToAuthorization ==
    \A k \in 1..Len(exchangeLog) :
        /\ openedWindows # <<>>
        /\ LET w == openedWindows[Len(openedWindows)]
           IN  /\ exchangeLog[k].pkce_verifier = w.state
               /\ w.code_challenge = Challenge(w.state)
               /\ exchangeLog[k].organization_uuid = w.organization_uuid

\* C13 as stated: the windows opened carry pairwise distinct verifiers, and no
\* exchange request carries a verifier with which an earlier exchange has failed.
C13_VerifierNeverResent ==
    /\ [](\A j, k \in 1..Len(openedWindows) :
            j # k => openedWindows[j].state # openedWindows[k].state)
    /\ [][exchangeLog' # exchangeLog =>
            exchangeLog'[Len(exchangeLog')].pkce_verifier \notin failedVerifiers]_vars

\* C13: one modal opens at most one authorization URL, and every exchange request it
\* sends, a retry after a failed exchange included, carries the verifier of that URL
\* and no other.
C13_OneVerifierPerModal ==
    /\ Len(openedWindows) <= 1
    /\ \A k \in 1..Len(exchangeLog) :
            /\ Len(openedWindows) = 1
            /\ exchangeLog[k].pkce_verifier = openedWindows[1].state
            /\ exchangeLog[k].pkce_verifier \in Verifiers

C13_Witness ==
    /\ Len(exchangeLog) = 2
    /\ exchangeLog[2].pkce_verifier \in failedVerifiers
    /\ exchangeLog[2].pkce_verifier = openedWindows[1].state

GenerateFailed ==
    /\ oauthOutcome' # oauthOutcome
    /\ oauthOutcome' = [op |-> "generate", ok |-> FALSE]

ExchangeFailed ==
    /\ oauthOutcome' # oauthOutcome
    /\ oauthOutcome' = [op |-> "exchange", ok |-> FALSE]

\* C14: a failed operation never changes the step and is not retried: when generate-URL
\* throws the step stays 'input', when the exchange is rejected the step stays 'code'
\* and onClose is not called; the step that handles the failure sends nothing, leaves
\* no handler running and, in the mounted modal, sets a non-empty error and loading
\* to false; a request is sent only by a step that starts with no handler running and
\* completes no call, that is by a click of the user.
C14_FailureKeepsStep ==
    /\ [][GenerateFailed =>
            /\ step = "input" /\ step' = "input"
            /\ opc' = "idle"
            /\ openedWindows' = openedWindows /\ exchangeLog' = exchangeLog
            /\ oauthModalOpen => (error' # "" /\ loading' = FALSE)]_vars
    /\ [][ExchangeFailed =>
            /\ step = "code" /\ step' = "code"
            /\ oauthOnCloseCalls' = oauthOnCloseCalls
            /\ oauthModalOpen' = oauthModalOpen
            /\ opc' = "idle"
            /\ openedWindows' = openedWindows /\ exchangeLog' = exchangeLog
            /\ oauthModalOpen => (error' # "" /\ loading' = FALSE)]_vars
    /\ [][(exchangeLog' # exchangeLog \/ (opc' # opc /\ opc' # "idle")) =>
            /\ opc = "idle"
            /\ oauthModalOpen
            /\ oauthOutcome' = NoOutcome]_vars

C14_Witness ==
    /\ oauthModalOpen
    /\ oauthOutcome = [op |-> "exchange", ok |-> FALSE]
    /\ step = "code"
    /\ error = ExchangeFailedMsg
    /\ ~loading
    /\ oauthOnCloseCalls = 0

\* C15: the capability set of an exchange request is the one of the selected tier,
\* [chat, claude_pro] for Pro and [chat, claude_max] for Max, never [chat] alone, and
\* the tier does not change while the step is 'code'.
C15_CapabilitiesByTier ==
    /\ [](\A k \in 1..Len(exchangeLog) :
            exchangeLog[k].capabilities \in
                {<<"chat", "claude_pro">>, <<"chat", "claude_max">>})
    /\ [][exchangeLog' # exchangeLog =>
            LET sent == exchangeLog'[Len(exchangeLog')].capabilities
            IN  /\ accountType = "Pro" => sent = <<"chat", "claude_pro">>
                /\ accountType = "Max" => sent = <<"chat", "claude_max">>]_vars
    /\ [][step = "code" => accountType' = accountType]_vars

C15_Witness ==
    /\ step = "code"
    /\ accountType = "Max"
    /\ Len(exchangeLog) = 1
    /\ exchangeLog[1].capabilities = <<"chat", "claude_max">>

-----------------------------------------------------------------------------
\* Properties of the account modal

FailsPrefixCheck(cookie) ==
    cookie # <<>> /\ ~AccountValidateAndProcessCookie(cookie).isValid

RequestSent == apc = "idle" /\ apc' = "await"

AlertOpens == ~showCookieAlert /\ showCookieAlert'

\* the rules of C17 that do not concern the content of the request: the alert opens
\* only for a cookie whose normalized value fails the prefix check, and opening it
\* normalizes the form's cookie and sends nothing; while the alert is closed and the
\* cookie fails the check, no step sends a request; a request for a failing cookie is
\* sent by the step that closes the alert, one for a passing cookie with no alert
AdvisoryValidation ==
    /\ [][AlertOpens =>
            /\ FailsPrefixCheck(formCookie)
            /\ formCookie' = AccountValidateAndProcessCookie(formCookie).processedValue
            /\ apc' = "idle" /\ accPending' = NoRequest]_vars
    /\ [][(~showCookieAlert /\ FailsPrefixCheck(formCookie)) => ~RequestSent]_vars
    /\ [][(RequestSent /\ FailsPrefixCheck(formCookie)) =>
            (showCookieAlert /\ ~showCookieAlert')]_vars
    /\ [][(RequestSent /\ ~FailsPrefixCheck(formCookie)) =>
            (~showCookieAlert /\ ~showCookieAlert')]_vars
    /\ [][(showCookieAlert /\ ~showCookieAlert' /\ ~RequestSent) =>
            (apc' = "idle" /\ accPending' = NoRequest)]_vars

\* C17 as stated: cookie validation is advisory, and the request sent after the
\* user's confirmation carries the normalized cookie value.
C17_ConfirmedRequestCarriesCookie ==
    /\ AdvisoryValidation
    /\ [][(RequestSent /\ showCookieAlert) =>
            accPending'.cookie_value =
                AccountValidateAndProcessCookie(formCookie).processedValue]_vars

\* C17: cookie validation is advisory (a failing cookie opens the alert and sends
\* nothing, a request is sent for it only by the confirmation, none after a cancel, a
\* passing cookie is sent without the alert), and every request carries the normalized
\* cookie value, except that an update leaves cookie_value out when the normalized
\* value equals the edited account's cookie.
C17_AdvisoryCookieValidation ==
    /\ AdvisoryValidation
    /\ [][RequestSent =>
            LET normalized == AccountValidateAndProcessCookie(formCookie).processedValue
            IN  /\ normalized # <<>>
                /\ accPending'.cookie_value =
                     IF editingAccount.present /\ normalized = editingAccount.cookie_value
                     THEN Absent ELSE normalized]_vars

C17_Witness ==
    /\ apc = "await"
    /\ ~showCookieAlert
    /\ formCookie = <<"X">>
    /\ accPending.kind = "create"
    /\ accPending.cookie_value = <<"X">>

\* C20: a rejection of an awaited backend call is handled inside the handler that
\* awaits it; for the account modal, no rejection of create/update leaves
\* handleSubmitForm or handleCookieAlertConfirm uncaught.
C20_EveryRejectionCaught ==
    ~accUnhandled

-----------------------------------------------------------------------------
\* Properties of the Accounts page and its modals

ExchangeSucceeded ==
    /\ oauthOutcome' # oauthOutcome
    /\ oauthOutcome' = [op |-> "exchange", ok |-> TRUE]

\* C16: the step in which an exchange succeeds calls OAuthModal's onClose; every call
\* of a modal's onClose (OAuth, account, batch) leaves that modal closed and issues
\* one reload of the account list, the account modal's also clearing editingAccount;
\* so the list has been requested once at mount and once per onClose call.
C16_CloseThenReload ==
    /\ [][ExchangeSucceeded => oauthOnCloseCalls' = oauthOnCloseCalls + 1]_vars
    /\ [][oauthOnCloseCalls' # oauthOnCloseCalls =>
            /\ oauthOnCloseCalls' = oauthOnCloseCalls + 1
            /\ ~oauthModalOpen'
            /\ listCalls' = listCalls + 1]_vars
    /\ [][accountOnCloseCalls' # accountOnCloseCalls =>
            /\ accountOnCloseCalls' = accountOnCloseCalls + 1
            /\ ~accountModalOpen'
            /\ editingAccount' = NoAccount
            /\ listCalls' = listCalls + 1]_vars
    /\ [][batchOnCloseCalls' # batchOnCloseCalls =>
            /\ batchOnCloseCalls' = batchOnCloseCalls + 1
            /\ ~batchModalOpen'
            /\ listCalls' = listCalls + 1]_vars
    /\ [](listCalls = 1 + oauthOnCloseCalls + accountOnCloseCalls + batchOnCloseCalls)

C16_Witness ==
    /\ oauthOutcome = [op |-> "exchange", ok |-> TRUE]
    /\ oauthOnCloseCalls = 1
    /\ ~oauthModalOpen
    /\ listCalls = 2

-----------------------------------------------------------------------------
\* Properties of the Settings page

\* C18 as stated: every patch sent to settingsApi.update contains only the field whose
\* edit was committed, with its new value.
C18_PatchIsTheEditedField ==
    savesSent > 0 =>
        /\ DOMAIN lastUpdate.changes = {lastUpdate.committed}
        /\ lastUpdate.changes[lastUpdate.committed] =
                lastUpdate.newSettings[lastUpdate.committed]

\* C18: every patch sent to settingsApi.update is non-empty and contains exactly the
\* fields whose value in the new settings differs from originalSettings as it is when
\* the edit is committed, each with its new value; it is the committed field alone
\* whenever every other field equals that baseline.
C18_PatchIsDiffAgainstBaseline ==
    savesSent > 0 =>
        LET differing == { key \in FieldNames :
                            lastUpdate.newSettings[key] # lastUpdate.baseline[key] }
        IN  /\ differing # {}
            /\ DOMAIN lastUpdate.changes = differing
            /\ \A key \in differing :
                    lastUpdate.changes[key] = lastUpdate.newSettings[key]
            /\ (\A key \in FieldNames \ {lastUpdate.committed} :
                    lastUpdate.newSettings[key] = lastUpdate.baseline[key])
                => DOMAIN lastUpdate.changes = {lastUpdate.committed}

C18_Witness ==
    /\ savesSent = 2
    /\ savesInFlight # {}
    /\ saveStatus = "saving"
    /\ lastUpdate.committed = "preserve_chats"
    /\ DOMAIN lastUpdate.changes = {"human_name", "preserve_chats"}
    /\ lastUpdate.baseline = serverSettings

\* C19: once the settings are loaded, originalSettings equals the settings as last
\* successfully saved: the loaded settings with every patch whose update succeeded.
C19_BaselineIsLastSaved ==
    originalSettings = serverSettings

-----------------------------------------------------------------------------
\* Further properties of the batch cookie processor

\* the text has no line that is non-empty after trimming: it consists of white space
\* and line feeds only
OnlyBlank(text) == \A k \in 1..Len(text) : IsSpace(text[k])

\* C22: with an input that has no non-empty line after trimming, submitting is a
\* no-op: the submit button is disabled, and no step sets isProcessing or showResults,
\* adds a row or sends a create request; so every run that was started has a row.
C22_EmptySubmitIsNoOp ==
    /\ [](OnlyBlank(cookies) => ~BatchSubmitEnabled)
    /\ [][(bpc = "idle" /\ ~showResults /\ OnlyBlank(cookies)) =>
            /\ ~isProcessing' /\ ~showResults'
            /\ results' = <<>>
            /\ createLog' = <<>> /\ createPending' = {}
            /\ bpc' = "idle"]_vars
    /\ []((showResults \/ isProcessing) => (results # <<>> /\ ~OnlyBlank(cookies)))

C22_Witness ==
    /\ batchModalOpen
    /\ cookies = <<" ", "\n", " ">>
    /\ closeRefused = FALSE
    /\ ~isProcessing /\ ~showResults
    /\ results = <<>> /\ createLog = <<>>

\* the row whose create request is in flight
HungRows == { req.row + 1 : req \in createPending }

\* C25: while a create request is in flight and does not complete, the run stays
\* where it is: that row is 'processing', every later row is 'pending', isProcessing
\* is true, the modal is open, and every step that does not complete the request
\* (the close action included) leaves rows, loop position and modal as they are.
C25_HungRequestHangsRun ==
    /\ [](\A j \in HungRows :
            /\ j \in Rows /\ j = bi + 1
            /\ results[j].status = "processing"
            /\ \A k \in Rows : k > j => results[k].status = "pending"
            /\ isProcessing
            /\ batchModalOpen
            /\ bpc = "awaitCreate")
    /\ [][(createPending # {} /\ createPending' = createPending) =>
            /\ results' = results
            /\ bi' = bi /\ bpc' = bpc
            /\ isProcessing'
            /\ batchModalOpen'
            /\ batchOnCloseCalls' = batchOnCloseCalls
            /\ createLog' = createLog]_vars

C25_Witness ==
    /\ createPending # {}
    /\ bi = 0
    /\ Len(results) = 3
    /\ results[1].status = "processing"
    /\ results[3].status = "pending"
    /\ closeRefused
    /\ batchModalOpen

\* the positions at which a line of the text ends: each line feed, and the end of
\* the text
LineEnds(text) == { k \in 1..Len(text) : text[k] = "\n" } \cup { Len(text) + 1 }

\* the position at which the line ending at e starts
LineStart(text, e) ==
    IF \E k \in LineEnds(text) : k < e
    THEN (CHOOSE k \in LineEnds(text) : k < e /\ \A m \in LineEnds(text) : m < e => m <= k) + 1
    ELSE 1

\* the line ending at e
LineAt(text, e) == SubSeq(text, LineStart(text, e), e - 1)

\* the input lines that are non-empty after trimming, each named by its end
CandidateLines(text) ==
    { e \in LineEnds(text) : \E c \in LineStart(text, e)..(e - 1) : ~IsSpace(text[c]) }

\* the j-th smallest element of a set of positions
NthOf(positions, j) ==
    CHOOSE k \in positions : Cardinality({ m \in positions : m <= k }) = j

\* rs is one 'pending' row per candidate line of text, in input order, holding the
\* trimmed line
IsInitialRows(rs, text) ==
    /\ Len(rs) = Cardinality(CandidateLines(text))
    /\ \A j \in 1..Len(rs) :
            /\ IsTrimOf(rs[j].cookie, LineAt(text, NthOf(CandidateLines(text), j)))
            /\ rs[j].status = "pending"
            /\ DOMAIN rs[j] = {"cookie", "status"}

\* C26: the step that starts a run sets the result list to one row per input line
\* that is non-empty after trimming, in input order, each with the trimmed line and
\* status 'pending'; afterwards the number of rows and their texts never change.
C26_OneRowPerCandidate ==
    /\ [][(~showResults /\ showResults') => IsInitialRows(results', cookies)]_vars
    /\ [][showResults =>
            /\ Len(results') = Len(results)
            /\ \A j \in Rows : results'[j].cookie = results[j].cookie]_vars

C26_Witness ==
    /\ bpc = "done"
    /\ Cardinality(LineEnds(cookies)) = 3
    /\ Len(results) = 2
    /\ results[1].cookie = <<"g","a","r","b","a","g","e">>
    /\ results[2].cookie = SESSIONKEY \o SID01 \o <<"b">>

\* the positions of the rows that failed
ErrorRows == { j \in Rows : results[j].status = "error" }

\* the text is the failed rows' raw texts in row order, one per line
IsFailedBatch(text) ==
    /\ Cardinality(LineEnds(text)) = Cardinality(ErrorRows)
    /\ \A j \in 1..Cardinality(ErrorRows) :
            LineAt(text, NthOf(LineEnds(text), j)) = results[NthOf(ErrorRows, j)].cookie

\* C23: a successful copy stores exactly the raw texts of the 'error' rows, in row
\* order, one per line (so no 'success' row's text unless a failed row has the same
\* text); the stored text, split, trimmed and filtered as a submission does, gives
\* exactly the failed rows' texts; a copy that fails leaves the clipboard as it was.
C23_CopyIsTheFailedBatch ==
    /\ [](clipboard.written =>
            /\ IsFailedBatch(clipboard.text)
            /\ FilterNonEmpty(MapTrim(Split(clipboard.text)))
                    = [j \in 1..Cardinality(ErrorRows) |-> results[NthOf(ErrorRows, j)].cookie]
            /\ \A j \in Rows : results[j].status \in {"success", "error"})
    /\ [][copyToast' = "error" => clipboard' = clipboard]_vars
    /\ [][clipboard' # clipboard => (copyToast' = "success" /\ ErrorRows # {})]_vars

C23_Witness ==
    /\ clipboard.written
    /\ copyToast = "success"
    /\ Len(results) = 3
    /\ results[1].status = "error"
    /\ results[2].status = "success"
    /\ results[3].status = "error"
    /\ clipboard.text = results[1].cookie \o <<"\n">> \o results[3].cookie

-----------------------------------------------------------------------------
\* Further properties of the Settings page

Elements(list) == { list[k] : k \in 1..Len(list) }

NoDuplicates(list) == \A i, j \in 1..Len(list) : list[i] = list[j] => i = j

\* a step of a key list and its input: the list changes only by appending the typed
\* key, non-empty and not yet in the list, or by losing every occurrence of one key
KeyListStep(old, new, typed) ==
    \/ new = old
    \/ /\ typed # ""
       /\ typed \notin Elements(old)
       /\ new = Append(old, typed)
    \/ \E key \in Elements(old) :
            /\ key \notin Elements(new)
            /\ Elements(new) = Elements(old) \ {key}
            /\ Len(new) < Len(old)

\* C27: the lists of API keys and of admin keys, loaded without duplicates, never hold
\* a duplicate; a step changes a list only by appending the typed key when that key
\* is non-empty and not in the list, or by removing a key, which is then not in the
\* list; the add button is disabled for an empty key; and an update request is sent
\* only by a step that changes the settings.
C27_KeyListsAreSets ==
    /\ [](settings # Null =>
            /\ NoDuplicates(settings.api_keys)
            /\ NoDuplicates(settings.admin_api_keys))
    /\ [](newApiKey = "" => ~AddApiKeyEnabled)
    /\ [](newAdminKey = "" => ~AddAdminKeyEnabled)
    /\ [][settings # Null =>
            /\ KeyListStep(settings.api_keys, settings'.api_keys, newApiKey)
            /\ KeyListStep(settings.admin_api_keys, settings'.admin_api_keys, newAdminKey)
            /\ savesSent' # savesSent => settings' # settings]_vars

C27_Witness ==
    /\ settings # Null
    /\ settings.api_keys = <<"k1">>
    /\ settings.admin_api_keys = <<"a1">>
    /\ newApiKey = "k1"
    /\ newAdminKey = "a1"
    /\ savesSent = 2
    /\ serverSettings.api_keys = <<>>

\* C28 as stated: whenever a settingsApi.update request is in flight, saveStatus is
\* 'saving'.
C28_SavingWhileInFlight ==
    savesInFlight # {} => saveStatus = "saving"

-----------------------------------------------------------------------------
\* Further properties of the Accounts page's modals

\* C29 as stated: per instance of OAuthModal or AccountModal, onClose is invoked at
\* most once.
C29_OnCloseAtMostOnce ==
    /\ oauthOnCloseCalls <= 1
    /\ accountOnCloseCalls <= 1

\* the tiers and the capability lists the claim pairs
TierTable ==
    { <<"Free", <<"chat">>>>,
      <<"Pro", <<"chat", "claude_pro">>>>,
      <<"Max", <<"chat", "claude_max">>>> }

\* a create or update request leaves the modal
AccountRequestSent == accPending' # accPending /\ accPending' # NoRequest

\* C30: a modal opened on an account whose capabilities are those of tier t shows t,
\* and one opened on an account without capabilities shows 'none'; every request
\* sent with tier t in {Free, Pro, Max} selected carries t's capability list, which
\* loads as t again; a request sent with 'none' selected carries no capabilities.
C30_TierRoundTrip ==
    /\ editingAccount.present =>
            /\ \A pair \in TierTable :
                    editingAccount.capabilities = pair[2] => accAccountType = pair[1]
            /\ editingAccount.capabilities = <<>> => accAccountType = "none"
    /\ [][AccountRequestSent =>
            /\ \A pair \in TierTable :
                    accAccountType = pair[1] =>
                        /\ accPending'.capabilities = pair[2]
                        /\ AccountTypeOf(accPending'.capabilities) = pair[1]
            /\ accAccountType = "none" => accPending'.capabilities = Absent
            /\ accAccountType \in {"none", "Free", "Pro", "Max"}]_vars

C30_Witness ==
    /\ editingAccount.present
    /\ editingAccount.capabilities = <<"chat">>
    /\ accPending # NoRequest
    /\ accPending.kind = "update"
    /\ accPending.capabilities = <<"chat", "claude_max">>

-----------------------------------------------------------------------------
\* Properties of the Login page

\* C21: the submitted key is stored under 'adminKey' when the validation call is made,
\* and the call reads it; when validation fails, nothing is stored under 'adminKey'
\* afterwards (whatever was stored before the attempt), an error is shown and nothing
\* is navigated to; when it succeeds, the submitted key stays stored and '/' is
\* navigated to; loading is false after either outcome.
C21_LoginStoresThenValidates ==
    /\ [][(lpc = "idle" /\ lpc' = "await") =>
            /\ storedAdminKey' = Item(adminKey)
            /\ loginCheck'.sent /\ loginCheck'.stored = Item(adminKey)]_vars
    /\ [](lpc = "await" =>
            /\ loginCheck.sent
            /\ storedAdminKey = loginCheck.stored
            /\ storedAdminKey.present
            /\ loginLoading)
    /\ [][(lpc = "await" /\ lpc' = "idle") =>
            /\ ~loginLoading'
            /\ loginOutcome' \in {"ok", "failed"}
            /\ loginOutcome' = "failed" =>
                    /\ ~storedAdminKey'.present
                    /\ loginError' # ""
                    /\ navigations' = navigations
            /\ loginOutcome' = "ok" =>
                    /\ storedAdminKey' = loginCheck.stored
                    /\ navigations' = Append(navigations, "/")
                    /\ loginError' = ""]_vars
    /\ []((lpc = "idle" /\ loginOutcome = "failed") =>
            (~storedAdminKey.present /\ navigations = <<>> /\ ~loginLoading))
    /\ []((lpc = "idle" /\ loginOutcome = "ok") =>
            (storedAdminKey.present /\ navigations = <<"/">> /\ ~loginLoading))

C21_Witness ==
    /\ lpc = "idle"
    /\ loginOutcome = "failed"
    /\ storedBefore = Item(<<"k", "0">>)
    /\ ~storedAdminKey.present
    /\ loginError # ""
    /\ loginCheck.attempt = 1

-----------------------------------------------------------------------------
\* Properties of generatePKCE

\* the base64url alphabet
UrlAlphabet == { B64[k] : k \in 1..62 } \cup {"-", "_"}

\* the six-bit value of a character of it
UrlValue(c) ==
    IF c = "-" THEN 62
    ELSE IF c = "_" THEN 63
    ELSE (CHOOSE k \in 1..62 : B64[k] = c) - 1

BitsOfBytes(bytes) ==
    [i \in 1..(8 * Len(bytes)) |->
        (bytes[((i - 1) \div 8) + 1] \div (2 ^ (7 - ((i - 1) % 8)))) % 2]

BitsOfChars(s) ==
    [i \in 1..(6 * Len(s)) |->
        (UrlValue(s[((i - 1) \div 6) + 1]) \div (2 ^ (5 - ((i - 1) % 6)))) % 2]

\* s is the unpadded base64url encoding of bytes: characters of the alphabet only,
\* as many as the bits need, spelling the bits of bytes followed by zeros
IsBase64UrlOf(s, bytes) ==
    /\ \A k \in 1..Len(s) : s[k] \in UrlAlphabet
    /\ Len(s) = ((8 * Len(bytes)) + 5) \div 6
    /\ \A i \in 1..(6 * Len(s)) :
            BitsOfChars(s)[i] = IF i <= 8 * Len(bytes) THEN BitsOfBytes(bytes)[i] ELSE 0

\* C24: in every invocation of generatePKCE the verifier is the unpadded base64url
\* encoding of the 32 random bytes; the digest requested is SHA-256 of the verifier's
\* UTF-8 bytes and of nothing else; the challenge is the unpadded base64url encoding
\* of the 32 bytes of that digest; both are non-empty and have no '+', '/' or '='.
C24_PkceEncodings ==
    /\ gpc # "start" =>
            /\ Len(randomBytes) = VerifierBytes
            /\ IsBase64UrlOf(pkVerifier, randomBytes)
            /\ pkVerifier # <<>>
            /\ digestCall.algorithm = "SHA-256"
            /\ Len(digestCall.data) = Len(pkVerifier)
            /\ \A k \in 1..Len(pkVerifier) : digestCall.data[k] = Utf8Code(pkVerifier[k])
    /\ gpc = "returned" =>
            /\ Len(digestBytes) = 32
            /\ IsBase64UrlOf(pkChallenge, digestBytes)
            /\ pkChallenge # <<>>
            /\ \A k \in 1..Len(pkChallenge) : pkChallenge[k] \notin {"+", "/", "="}
    /\ \A k \in 1..Len(pkVerifier) : pkVerifier[k] \notin {"+", "/", "="}

C24_Witness ==
    /\ gpc = "returned"
    /\ randomBytes = [k \in 1..32 |-> 255]
    /\ pkVerifier = [k \in 1..43 |-> IF k = 43 THEN "8" ELSE "_"]
    /\ digestBytes = [k \in 1..32 |-> IF k % 3 = 1 THEN 251 ELSE IF k % 3 = 2 THEN 239 ELSE 190]
    /\ pkChallenge[1] = "-"
    /\ Len(pkChallenge) = 43

====
